---- MODULE Spec2Model ----
(***************************************************************************)
(* A model of the miniscript task engine: Script / Engine (_engine.py),    *)
(* Task (_task.py), the built-in kinds (tasks.py) and the lazily           *)
(* evaluating Context / Namespace (_context.py).                           *)
(*                                                                         *)
(* The interpreter is recursive in the source (Script.__call__ calls       *)
(* Task.__call__, which calls _execute_one, which for a block calls        *)
(* Task.__call__ of the children).  Here the Python call stack is the      *)
(* variable `stack`, and an exception in flight is the variable `exc`.     *)
(***************************************************************************)
EXTENDS Integers, Sequences, FiniteSets, TLC

(***************************************************************************)
(* Bounds of the model.                                                    *)
(***************************************************************************)
MaxTasks == 3
MaxItems == 2
MaxCalls == 2
MaxEngines == 3

(***************************************************************************)
(* Python / JSON values.  Every value is a record with a tag k.            *)
(*   str: a string seen as a template.  braces says whether the text is    *)
(*        "{{ e }}" or the bare text of e.                                 *)
(***************************************************************************)
None == [k |-> "none"]
Undefined == [k |-> "undef"]
Num(n) == [k |-> "int", n |-> n]
Bool(b) == [k |-> "bool", b |-> b]
List(xs) == [k |-> "list", items |-> xs]
Dict(o, m) == [k |-> "map", o |-> o, m |-> m]
EmptyDict == Dict(<<>>, [n \in {} |-> None])
\* A dict some of whose keys are no strings: ints is the set of the keys
\* of d that are the text of an integer key, such as "42" for the key 42.
WithIntKeys(d, ints) == [k |-> "map", o |-> d.o, m |-> d.m, ints |-> ints]
NonStringKeys(d) == IF "ints" \in DOMAIN d THEN d.ints ELSE {}
Err(cls, msg) == [k |-> "err", cls |-> cls, msg |-> msg]
IsErr(v) == v.k = "err"

Var(n) == [op |-> "var", n |-> n]
Lit(v) == [op |-> "lit", v |-> v]
NotNone(n) == [op |-> "notnone", n |-> n]
Attr(n, a) == [op |-> "attr", n |-> n, a |-> a]
BadExpr == [op |-> "bad"]
Add(a, b) == [op |-> "add", a |-> a, b |-> b]
Words(s) == [op |-> "text", s |-> s]

Tmpl(e) == [k |-> "str", braces |-> TRUE, e |-> e]
Bare(e) == [k |-> "str", braces |-> FALSE, e |-> e]
Name(n) == Bare(Var(n))
Text(s) == Bare(Words(s))

\* One dict entry more, at the end of the insertion order.
DictPut(d, key, v) ==
    IF key \in DOMAIN d.m
    THEN Dict(d.o, [d.m EXCEPT ![key] = v])
    ELSE Dict(Append(d.o, key), (key :> v) @@ d.m)

RECURSIVE DictOf(_)
DictOf(pairs) ==
    IF pairs = <<>> THEN EmptyDict
    ELSE LET n == Len(pairs)
         IN  DictPut(DictOf(SubSeq(pairs, 1, n - 1)), pairs[n][1], pairs[n][2])

\* The first error of a sequence of values, or NoErr.
NoErr == [k |-> "noerr"]
FirstErr(xs) ==
    IF \E i \in DOMAIN xs : IsErr(xs[i])
    THEN xs[CHOOSE i \in DOMAIN xs :
                /\ IsErr(xs[i])
                /\ \A j \in DOMAIN xs : IsErr(xs[j]) => i <= j]
    ELSE NoErr

(***************************************************************************)
(* Environment (_context.py): template evaluation.  jinja2 itself is an    *)
(* external library; an expression is modelled by what it computes:        *)
(*   var n       the variable n (Undefined when it is not in the context)  *)
(*   lit v       a literal such as 42, True or 1 == 1                      *)
(*   notnone n   "n is not none"                                           *)
(*   attr n a    "n.a"                                                     *)
(*   add a b     "a + b"                                                   *)
(*   bad         an expression that raises, such as answer.wrong.key       *)
(*   text s      words that are no expression at all                       *)
(* cs is the sequence of the Context objects alive, c the index of the     *)
(* one the evaluation reads.                                               *)
(***************************************************************************)
RECURSIVE EvalRec(_, _, _)
RECURSIVE EvalExpr(_, _, _)

\* Context.__getitem__: values are evaluated on access.
CtxGet(cs, c, n) == EvalRec(cs[c][n], cs, c)

Lookup(cs, c, n) == IF n \in DOMAIN cs[c] THEN CtxGet(cs, c, n) ELSE Undefined

GetAttr(v, a) ==
    CASE IsErr(v) -> v
      [] v.k = "undef" -> Err("UndefinedError", <<"undefined">>)
      [] v.k = "result" -> IF a \in DOMAIN v.d THEN v.d[a] ELSE Undefined
      [] OTHER -> Undefined

EvalExpr(e, cs, c) ==
    CASE e.op = "var" -> Lookup(cs, c, e.n)
      [] e.op = "lit" -> e.v
      [] e.op = "notnone" ->
            LET v == Lookup(cs, c, e.n)
            IN  IF IsErr(v) THEN v ELSE Bool(v # None)
      [] e.op = "attr" -> GetAttr(Lookup(cs, c, e.n), e.a)
      [] e.op = "add" ->
            LET a == EvalExpr(e.a, cs, c)
                b == EvalExpr(e.b, cs, c)
            IN  IF IsErr(a) THEN a
                ELSE IF IsErr(b) THEN b
                ELSE IF a.k = "undef" \/ b.k = "undef"
                THEN Err("UndefinedError", <<"undefined">>)
                ELSE IF a.k = "int" /\ b.k = "int" THEN Num(a.n + b.n)
                ELSE Err("TypeError", <<"unsupported operand type(s) for +">>)
      [] e.op = "bad" -> Err("UndefinedError", <<"undefined">>)
      [] OTHER -> Err("TemplateSyntaxError", <<"syntax">>)

\* Environment.evaluate: render the string as a native template.  Text
\* without braces renders to itself, and the native renderer turns the text
\* of a Python literal into that literal.
Evaluate(s, cs, c) ==
    IF s.braces THEN EvalExpr(s.e, cs, c)
    ELSE IF s.e.op = "lit" THEN s.e.v
    ELSE IF s.e = Words("") THEN None
    ELSE s

\* Environment.evaluate_code: the braces are added when they are missing.
EvaluateCode(s, cs, c) ==
    IF s.k # "str" THEN Err("AttributeError", <<"startswith">>)
    ELSE EvalExpr(s.e, cs, c)

\* Environment.evaluate_recursive
EvalRec(v, cs, c) ==
    CASE v.k = "map" -> [c |-> c] @@ [v EXCEPT !.k = "ns"]
      [] v.k = "list" ->
            LET ys == [i \in DOMAIN v.items |-> EvalRec(v.items[i], cs, c)]
            IN  IF FirstErr(ys) # NoErr THEN FirstErr(ys) ELSE List(ys)
      [] v.k = "str" -> Evaluate(v, cs, c)
      [] OTHER -> v

\* Python truthiness, as all() applies it.
Truthy(v) ==
    CASE v.k = "bool" -> v.b
      [] v.k = "int" -> v.n # 0
      [] v.k = "none" -> FALSE
      [] v.k = "undef" -> FALSE
      [] v.k = "list" -> v.items # <<>>
      [] v.k \in {"map", "ns"} -> v.o # <<>>
      [] OTHER -> TRUE

(***************************************************************************)
(* Text of messages: a message is a sequence of tokens, str(v) of a value  *)
(* is one token.                                                           *)
(***************************************************************************)
NumText(n) ==
    CASE n = 0 -> "0" [] n = 1 -> "1" [] n = 2 -> "2" [] n = 3 -> "3"
      [] n = 42 -> "42"
      [] OTHER -> "<int>"

ScalarText(v) ==
    CASE v.k = "int" -> NumText(v.n)
      [] v.k = "none" -> "None"
      [] v.k = "undef" -> ""
      [] v.k = "bool" -> IF v.b THEN "True" ELSE "False"
      [] OTHER -> "<object>"

TextOf(v) ==
    CASE v.k = "str" /\ v.e.op = "var" -> v.e.n
      [] v.k = "str" /\ v.e.op = "text" -> v.e.s
      [] v.k = "str" /\ v.e.op = "lit" -> ScalarText(v.e.v)
      [] OTHER -> ScalarText(v)

\* Python str(v), as a string value.
StrOf(v) ==
    CASE v.k = "str" -> v
      [] v.k \in {"int", "none", "bool", "list"} -> Bare(Lit(v))
      [] v.k = "undef" -> Text("")
      [] OTHER -> Text("<object>")

\* The declared casters of parameters: str, int, list.
Cast(type, v) ==
    IF IsErr(v) THEN v
    ELSE IF type = "str" THEN StrOf(v)
    ELSE IF type = "int"
    THEN CASE v.k = "int" -> v
           [] v.k = "bool" -> Num(IF v.b THEN 1 ELSE 0)
           [] v.k = "str" -> Err("ValueError", <<"invalid literal for int(): ", TextOf(v)>>)
           [] v.k = "undef" -> Err("UndefinedError", <<"undefined">>)
           [] OTHER -> Err("TypeError", <<"int() argument must be a string or a number, not ", v.k>>)
    ELSE IF type = "list"
    THEN CASE v.k = "list" -> v
           [] v.k = "undef" -> List(<<>>)
           [] v.k = "str" -> List(<<v>>)
           [] v.k = "ns" -> List([i \in DOMAIN v.o |-> Name(v.o[i])])
           [] OTHER -> Err("TypeError", <<"object is not iterable: ", v.k>>)
    ELSE v

(***************************************************************************)
(* Result (_task.py): the kind's values are stored first, the status       *)
(* fields are assigned after them.                                         *)
(***************************************************************************)
\* (mutant) the kind's values are stored last
ResultUpdatedLast(results, failure, skipped) ==
    [k |-> "result",
     d |-> results @@ [succeeded |-> Bool(failure = None),
                       failed |-> Bool(failure # None),
                       failure |-> failure,
                       skipped |-> Bool(skipped)]]

Result(results, failure, skipped) ==
    [k |-> "result",
     d |-> [succeeded |-> Bool(failure = None),
            failed |-> Bool(failure # None),
            failure |-> failure,
            skipped |-> Bool(skipped)] @@ results]

NoValues == [n \in {} |-> None]

Message(tokens) == [k |-> "msg", t |-> tokens]

(***************************************************************************)
(* When (_task.py)                                                         *)
(***************************************************************************)
When(definition) ==
    [k |-> "when",
     definition |-> IF definition.k = "str" THEN List(<<definition>>)
                    ELSE definition]

\* What `for expr in self.definition` yields: the items of a list, the keys
\* of a mapping.
WhenItems(definition) ==
    IF definition.k = "list" THEN definition.items
    ELSE [i \in DOMAIN definition.o |-> Name(definition.o[i])]

\* (mutant) every condition is evaluated before all() looks at them
WhenCallEager(w, cs, c) ==
    IF w.definition.k \notin {"list", "map", "ns"}
    THEN IF w.definition.k = "undef" THEN Bool(TRUE)
         ELSE Err("TypeError", <<"object is not iterable: ", w.definition.k>>)
    ELSE LET d == WhenItems(w.definition)
             r == [i \in DOMAIN d |-> EvaluateCode(d[i], cs, c)]
         IN  IF FirstErr(r) # NoErr THEN FirstErr(r)
             ELSE Bool(\A i \in DOMAIN d : Truthy(r[i]))

\* (mutant) any() in the place of all()
WhenCallAny(w, cs, c) ==
    IF w.definition.k \notin {"list", "map", "ns"}
    THEN IF w.definition.k = "undef" THEN Bool(TRUE)
         ELSE Err("TypeError", <<"object is not iterable: ", w.definition.k>>)
    ELSE LET d == WhenItems(w.definition)
             r == [i \in DOMAIN d |-> EvaluateCode(d[i], cs, c)]
             stop == {i \in DOMAIN d : IsErr(r[i]) \/ Truthy(r[i])}
             first == CHOOSE i \in stop : \A j \in stop : i <= j
         IN  IF stop = {} THEN Bool(FALSE)
             ELSE IF IsErr(r[first]) THEN r[first]
             ELSE Bool(TRUE)

\* When.__call__: all() stops at the first falsy condition; an error is
\* raised by the first condition that fails before that.
WhenCall(w, cs, c) ==
    IF w.definition.k \notin {"list", "map", "ns"}
    THEN IF w.definition.k = "undef" THEN Bool(TRUE)
         ELSE Err("TypeError", <<"object is not iterable: ", w.definition.k>>)
    ELSE LET d == WhenItems(w.definition)
             r == [i \in DOMAIN d |-> EvaluateCode(d[i], cs, c)]
             stop == {i \in DOMAIN d : IsErr(r[i]) \/ ~Truthy(r[i])}
             first == CHOOSE i \in stop : \A j \in stop : i <= j
         IN  IF stop = {} THEN Bool(TRUE)
             ELSE IF IsErr(r[first]) THEN r[first]
             ELSE Bool(FALSE)

(***************************************************************************)
(* The kinds: the built-in ones (tasks.py) and the test kind of the        *)
(* repository's tests, whose body records its call (a spy).  The kind      *)
(* "wrong" is the test kind with its execute patched to return 42, as in   *)
(* test_execution_wrong_result.  The kind "status" is a kind of the caller *)
(* whose execute returns a mapping with the keys succeeded, failed,        *)
(* failure and skipped.  The kinds "pair" and "open" are kinds of the      *)
(* caller with the required parameters first and second, of no declared    *)
(* type; "open" is free-form.  Their execute returns None.                 *)
(***************************************************************************)
Kinds == {"block", "fail", "log", "return", "vars", "test", "wrong", "status",
          "pair", "open"}

KnownParameters == {"name", "when", "ignore_errors", "register", "loop"}

(***************************************************************************)
(* The registries of kinds: a mapping from the name of a kind to its       *)
(* class.  engine has _BUILTINS of _engine.py (builtins), self.tasks of    *)
(* the Engine that runs the script (tasks), self.tasks of the engines that *)
(* were made before it (others), the argument `tasks` of the last call of  *)
(* Engine (given), the error this call raised (error) and the number of    *)
(* calls of Engine (made).                                                 *)
(***************************************************************************)
VARIABLE engine

_BUILTINS ==
    ("block" :> "Block") @@ ("fail" :> "Fail") @@ ("log" :> "Log")
    @@ ("return" :> "Return") @@ ("vars" :> "Vars")

\* The kinds of the caller: those of the tests, and FailTask of
\* test_engine.py, whose execute raises RuntimeError("I'm tired").
CallerTasks ==
    ("test" :> "TestTask") @@ ("wrong" :> "WrongTask")
    @@ ("status" :> "StatusTask") @@ ("pair" :> "PairTask")
    @@ ("open" :> "OpenTask")

TasksArguments ==
    { CallerTasks, ("fail" :> "FailTask") @@ CallerTasks,
      ("fail" :> "FailTask"), [n \in {} |-> "TestTask"] }
    \cup {(n :> "TestTask") @@ CallerTasks : n \in KnownParameters}
    \cup {(n :> "TestTask") : n \in {"when", "name"}}

\* The class that the engine has for the kind
Class(kind) == engine.tasks[kind]

\* (mutant) the names of the caller are not checked
EngineInitUnchecked(builtins, given) ==
    [k |-> "engine", builtins |-> builtins, tasks |-> given @@ builtins]

\* (mutant) self.tasks is _BUILTINS itself, not a copy of it
EngineInitShared(builtins, given) ==
    IF DOMAIN given \cap KnownParameters # {}
    THEN Err("ValueError", <<"Tasks ">>
                           \o SelectSeq(<<"name", "when", "ignore_errors",
                                          "register", "loop">>,
                                        LAMBDA n : n \in DOMAIN given)
                           \o <<" conflict with built-in parameters">>)
    ELSE [k |-> "engine", builtins |-> given @@ builtins,
          tasks |-> given @@ builtins]

\* Engine.__init__(tasks=given), with _BUILTINS as it is: the engine and
\* _BUILTINS after it, or the error raised.
EngineInit(builtins, given) ==
    IF DOMAIN given \cap KnownParameters # {}
    THEN Err("ValueError", <<"Tasks ">>
                           \o SelectSeq(<<"name", "when", "ignore_errors",
                                          "register", "loop">>,
                                        LAMBDA n : n \in DOMAIN given)
                           \o <<" conflict with built-in parameters">>)
    ELSE [k |-> "engine", builtins |-> builtins, tasks |-> given @@ builtins]

\* required_params and optional_params: <<name, caster>> in declaration order
required_params(kind) ==
    CASE kind = "block" -> << <<"tasks", "list">> >>
      [] kind = "fail" ->
            IF Class(kind) = "Fail" THEN << <<"msg", "str">> >> ELSE <<>>
      [] kind \in {"test", "wrong", "status"} -> << <<"object", "any">> >>
      [] kind \in {"pair", "open"} ->
            << <<"first", "any">>, <<"second", "any">> >>
      [] OTHER -> <<>>

optional_params(kind) ==
    CASE kind = "log" -> << <<"debug", "str">>, <<"info", "str">>,
                           <<"warning", "str">>, <<"error", "str">> >>
      [] kind = "return" -> << <<"result", "any">> >>
      [] kind \in {"test", "wrong"} ->
            << <<"message", "str">>, <<"number", "int">> >>
      [] OTHER -> <<>>

\* (mutant) every kind has a singleton parameter
HasSingletonAlways(kind) == TRUE

HasSingleton(kind) ==
    kind \in {"block", "return"} \/ (kind = "fail" /\ Class(kind) = "Fail")

singleton_param(kind) ==
    CASE kind = "block" -> "tasks"
      [] kind = "fail" -> "msg"
      [] OTHER -> "result"

free_form(kind) == kind \in {"vars", "open"}

allow_empty(kind) == kind # "log"

Names(pairs) == {pairs[i][1] : i \in DOMAIN pairs}

(***************************************************************************)
(* Task.__init__ (_task.py) and Engine._load_task (_engine.py).            *)
(* A definition is a dict, or, for the children of a block, a Namespace:   *)
(* reading a key of a Namespace evaluates its value.                       *)
(***************************************************************************)
Access(defn, key, cs) ==
    IF defn.k = "ns" THEN EvalRec(defn.m[key], cs, defn.c) ELSE defn.m[key]

InvalidTask(tokens) == Err("InvalidTask", tokens)

\* (mutant) the keys that are left over are ignored
TaskInitLenient(name, defn, cs) ==
    LET params == Access(defn, name, cs)
        items == [i \in DOMAIN defn.o |-> Access(defn, defn.o[i], cs)]
        top == DOMAIN defn.m \ {name}
        pop(key, default) == IF key \in top THEN Access(defn, key, cs)
                             ELSE default
        when == pop("when", None)
        ignore_errors == pop("ignore_errors", Bool(FALSE))
        register == pop("register", None)
        tname == pop("name", Name(name))
        loop == pop("loop", None)
    IN  IF IsErr(params) THEN params
        ELSE IF FirstErr(items) # NoErr THEN FirstErr(items)
        ELSE IF ignore_errors.k # "bool"
        THEN InvalidTask(<<"The ignore_errors parameter must be a boolean for task ", name>>)
        ELSE IF register # None /\ register.k # "str"
        THEN InvalidTask(<<"The register parameter must be a string for task ", name>>)
        ELSE IF tname.k # "str"
        THEN InvalidTask(<<"The name parameter must be a string for task ", name>>)
        ELSE IF loop # None /\ loop.k \notin {"str", "list"}
        THEN InvalidTask(<<"The loop parameter must be a template or a list for task ", name>>)
        ELSE IF params.k \in {"map", "ns"} /\ NonStringKeys(params) # {}
        THEN InvalidTask(<<"Parameters for task ", TextOf(tname),
                           " must have string keys">>)
        ELSE IF params.k \notin {"none", "map", "ns"} /\ ~HasSingleton(name)
        THEN InvalidTask(<<"Task ", TextOf(tname), " accepts an object, not ",
                           TextOf(params)>>)
        ELSE [k |-> "task",
              kind |-> name,
              name |-> tname,
              when |-> IF when # None THEN When(when) ELSE None,
              ignore_errors |-> ignore_errors.b,
              register |-> register,
              loop |-> loop,
              params |-> IF params = None THEN EmptyDict
                         ELSE IF params.k \in {"map", "ns"} THEN params
                         ELSE Dict(<<singleton_param(name)>>,
                                   singleton_param(name) :> params)]

TaskInit(name, defn, cs) ==
    LET params == Access(defn, name, cs)
        items == [i \in DOMAIN defn.o |-> Access(defn, defn.o[i], cs)]
        top == DOMAIN defn.m \ {name}
        pop(key, default) == IF key \in top THEN Access(defn, key, cs)
                             ELSE default
        when == pop("when", None)
        ignore_errors == pop("ignore_errors", Bool(FALSE))
        register == pop("register", None)
        tname == pop("name", Name(name))
        loop == pop("loop", None)
        left == top \ KnownParameters
    IN  IF IsErr(params) THEN params
        ELSE IF FirstErr(items) # NoErr THEN FirstErr(items)
        ELSE IF ignore_errors.k # "bool"
        THEN InvalidTask(<<"The ignore_errors parameter must be a boolean for task ", name>>)
        ELSE IF register # None /\ register.k # "str"
        THEN InvalidTask(<<"The register parameter must be a string for task ", name>>)
        ELSE IF tname.k # "str"
        THEN InvalidTask(<<"The name parameter must be a string for task ", name>>)
        ELSE IF loop # None /\ loop.k \notin {"str", "list"}
        THEN InvalidTask(<<"The loop parameter must be a template or a list for task ", name>>)
        ELSE IF left # {}
        THEN InvalidTask(<<"Unknown top-level parameters for task ", name>>)
        ELSE IF params.k \in {"map", "ns"} /\ NonStringKeys(params) # {}
        THEN InvalidTask(<<"Parameters for task ", TextOf(tname),
                           " must have string keys">>)
        ELSE IF params.k \notin {"none", "map", "ns"} /\ ~HasSingleton(name)
        THEN InvalidTask(<<"Task ", TextOf(tname), " accepts an object, not ",
                           TextOf(params)>>)
        ELSE [k |-> "task",
              kind |-> name,
              name |-> tname,
              when |-> IF when # None THEN When(when) ELSE None,
              ignore_errors |-> ignore_errors.b,
              register |-> register,
              loop |-> loop,
              params |-> IF params = None THEN EmptyDict
                         ELSE IF params.k \in {"map", "ns"} THEN params
                         ELSE Dict(<<singleton_param(name)>>,
                                   singleton_param(name) :> params)]

\* (mutant) a definition of no kind is reported as an invalid task
LoadTaskInvalid(defn, cs) ==
    IF defn.k \notin {"map", "ns"}
    THEN Err("TypeError", <<"object is not iterable: ", defn.k>>)
    ELSE LET matching == DOMAIN defn.m \cap DOMAIN engine.tasks
         IN  IF Cardinality(matching) # 1
             THEN InvalidTask(<<"Item with these keys is ambiguous">>)
             ELSE TaskInit(CHOOSE n \in matching : TRUE, defn, cs)

_load_task(defn, cs) ==
    IF defn.k \notin {"map", "ns"}
    THEN Err("TypeError", <<"object is not iterable: ", defn.k>>)
    ELSE LET matching == DOMAIN defn.m \cap DOMAIN engine.tasks
         IN  IF matching = {}
             THEN Err("UnknownTask", <<"Task defined by these keys is not known">>)
             ELSE IF Cardinality(matching) > 1
             THEN InvalidTask(<<"Item with these keys is ambiguous">>)
             ELSE TaskInit(CHOOSE n \in matching : TRUE, defn, cs)

(***************************************************************************)
(* Task.validate (_task.py) and the parameters of one execution.           *)
(***************************************************************************)
\* Namespace(environment, context, self.params): dict(self.params) copies
\* the stored parameters; copying a Namespace reads, so evaluates, its values.
NewParams(task, cs, c) ==
    LET p == task.params
        vals == [i \in DOMAIN p.o |-> Access(p, p.o[i], cs)]
    IN  IF FirstErr(vals) # NoErr THEN FirstErr(vals)
        ELSE [k |-> "ns", o |-> p.o,
              m |-> [n \in DOMAIN p.m |-> Access(p, n, cs)], c |-> c]

\* Namespace.__getitem__
ParamGet(params, n, cs) == EvalRec(params.m[n], cs, params.c)

\* (mutant) only the first of the names is in the message
RECURSIVE QuotedFirst(_, _)
QuotedFirst(seq, names) ==
    IF seq = <<>> THEN <<>>
    ELSE IF Head(seq) \in names THEN <<Head(seq)>>
    ELSE QuotedFirst(Tail(seq), names)

\* The names of a set, as tokens of a message, in the order of seq (the
\* program joins a Python set, whose order is that of its iteration).
RECURSIVE Quoted(_, _)
Quoted(seq, names) ==
    IF seq = <<>> THEN <<>>
    ELSE (IF Head(seq) \in names THEN <<Head(seq)>> ELSE <<>>)
         \o Quoted(Tail(seq), names)

NameSeq(pairs) == [i \in DOMAIN pairs |-> pairs[i][1]]

\* Task.validate: the parameters after the casts, or the error raised.
validate(kind, params, cs) ==
    LET known == required_params(kind) \o optional_params(kind)
        unknown == DOMAIN params.m \ Names(known)
        missing == Names(required_params(kind)) \ DOMAIN params.m
        typed == {i \in DOMAIN known :
                    known[i][2] # "any" /\ known[i][1] \in DOMAIN params.m}
        cast == [i \in typed |->
                    Cast(known[i][2], ParamGet(params, known[i][1], cs))]
        bad == {i \in typed : IsErr(cast[i])}
        first == CHOOSE i \in bad : \A j \in bad : i <= j
    IN  IF ~free_form(kind) /\ unknown # {}
        THEN InvalidTask(<<"parameter(s) not recognized: ">>
                         \o Quoted(params.o, unknown))
        ELSE IF missing # {}
        THEN InvalidTask(<<"parameter(s) required: ">>
                         \o Quoted(NameSeq(required_params(kind)), missing))
        ELSE IF params.o = <<>> /\ ~allow_empty(kind)
        THEN InvalidTask(<<"at least one of ">>
                         \o NameSeq(optional_params(kind))
                         \o <<" is required">>)
        ELSE IF bad # {}
        THEN InvalidTask(<<"invalid value for parameter ", known[first][1], ": ">>
                         \o cast[first].msg)
        ELSE [params EXCEPT !.m =
                [n \in DOMAIN params.m |->
                    IF \E i \in typed : known[i][1] = n
                    THEN cast[CHOOSE i \in typed : known[i][1] = n]
                    ELSE params.m[n]]]

\* Block.validate (tasks.py): the children are loaded when the block is
\* validated, from the evaluated value of `tasks`.
BlockValidate(params, cs) ==
    LET p == validate("block", params, cs)
        tasks == ParamGet(p, "tasks", cs)
        loaded == [i \in DOMAIN tasks.items |-> _load_task(tasks.items[i], cs)]
    IN  IF IsErr(p) THEN p
        ELSE IF IsErr(tasks) THEN tasks
        ELSE IF FirstErr(loaded) # NoErr THEN FirstErr(loaded)
        ELSE [p EXCEPT !.m.tasks = List(loaded)]

(***************************************************************************)
(* The bodies (execute) of the kinds that do not call other tasks.         *)
(* The outcome of a body: st is "ok" (it returned values), "exc" (it       *)
(* raised e), "finish" (it raised FinishScript(v)) or "value" (it returned *)
(* v, which is neither None nor a mapping); cs is the contexts after it.   *)
(***************************************************************************)
Ok(values, cs) == [st |-> "ok", values |-> values, cs |-> cs]
OkValue(v, cs) == [st |-> "value", v |-> v, cs |-> cs]
Raised(e, cs) == [st |-> "exc", e |-> e, cs |-> cs]
Finish(v, cs) == [st |-> "finish", v |-> v, cs |-> cs]

\* (mutant) only the first key is assigned
VarsExecuteFirst(params, i, cs, c) ==
    IF Len(params.o) = 0 THEN Ok(NoValues, cs)
    ELSE LET key == params.o[1]
             v == ParamGet(params, key, cs)
         IN  IF IsErr(v) THEN Raised(v, cs)
             ELSE Ok(NoValues, [cs EXCEPT ![c] = (key :> v) @@ cs[c]])

\* Vars.execute: the keys are assigned one after the other, each value
\* evaluated against the context as the earlier assignments left it.
RECURSIVE VarsExecute(_, _, _, _)
VarsExecute(params, i, cs, c) ==
    IF i > Len(params.o) THEN Ok(NoValues, cs)
    ELSE LET key == params.o[i]
             v == ParamGet(params, key, cs)
         IN  IF IsErr(v) THEN Raised(v, cs)
             ELSE VarsExecute(params, i + 1,
                              [cs EXCEPT ![c] = (key :> v) @@ cs[c]], c)

execute(kind, params, cs, c) ==
    CASE kind = "fail" /\ Class(kind) # "Fail" ->
            Raised(Err("RuntimeError", <<"I'm tired">>), cs)
      [] kind = "fail" /\ Class(kind) = "Fail" ->
            LET v == ParamGet(params, "msg", cs)
            IN  IF IsErr(v) THEN Raised(v, cs)
                ELSE Raised(Err("Aborted", <<TextOf(v)>>), cs)
      [] kind = "return" ->
            LET v == IF "result" \in DOMAIN params.m
                     THEN ParamGet(params, "result", cs) ELSE None
            IN  IF IsErr(v) THEN Raised(v, cs) ELSE Finish(v, cs)
      [] kind = "vars" -> VarsExecute(params, 1, cs, c)
      [] kind = "log" ->
            LET vals == [i \in DOMAIN params.o |->
                            ParamGet(params, params.o[i], cs)]
            IN  IF FirstErr(vals) # NoErr THEN Raised(FirstErr(vals), cs)
                ELSE Ok(NoValues, cs)
      [] kind = "test" ->
            LET v == ParamGet(params, "object", cs)
            IN  IF IsErr(v) THEN Raised(v, cs)
                ELSE Ok([result |-> v], cs)
      [] kind = "wrong" -> OkValue(Num(42), cs)
      [] kind = "status" ->
            Ok([succeeded |-> Bool(FALSE), failed |-> Bool(TRUE),
                failure |-> Text("fake"), skipped |-> Bool(TRUE)], cs)
      [] kind \in {"pair", "open"} -> Ok(NoValues, cs)

(***************************************************************************)
(* Exceptions.  Aborted is a subclass of ExecutionFailed; FinishScript is  *)
(* a BaseException, so `except Exception` does not catch it.               *)
(***************************************************************************)
NoExc == [k |-> "noexc"]
FinishScript(v) == [k |-> "finish", v |-> v]
ExecutionFailed(tokens) == Err("ExecutionFailed", tokens)
IsExecutionFailed(e) == IsErr(e) /\ e.cls \in {"ExecutionFailed", "Aborted"}

\* The except clause of Task._execute_one for an exception of the body:
\* the Result with ignore_errors, the ExecutionFailed raised without.
Failure(e) == Message(<<e.cls, ": ">> \o e.msg)

\* (mutant) the message of the exception is left out
BodyErrorBare(task, e) ==
    IF e.cls = "Aborted"
    THEN ExecutionFailed(<<"Execution aborted">>)
    ELSE ExecutionFailed(<<"Failed to execute task ", TextOf(task.name)>>)

\* (mutant) Aborted is treated like every other exception
BodyErrorNamed(task, e) ==
    ExecutionFailed(<<"Failed to execute task ", TextOf(task.name), ". ",
                      e.cls, ": ">> \o e.msg)

BodyError(task, e) ==
    IF e.cls = "Aborted"
    THEN ExecutionFailed(<<"Execution aborted: ">> \o e.msg)
    ELSE ExecutionFailed(<<"Failed to execute task ", TextOf(task.name), ". ",
                           e.cls, ": ">> \o e.msg)

ConditionError(task, e) ==
    ExecutionFailed(<<"Failed to evaluate condition for ", TextOf(task.name),
                      ". ", e.cls, ": ">> \o e.msg)

\* materialize (_context.py)
RECURSIVE materialize(_, _)
materialize(v, cs) ==
    IF v.k # "ns" THEN v
    ELSE LET vals == [i \in DOMAIN v.o |->
                        LET x == EvalRec(v.m[v.o[i]], cs, v.c)
                        IN  IF IsErr(x) THEN x ELSE materialize(x, cs)]
         IN  IF FirstErr(vals) # NoErr THEN FirstErr(vals)
             ELSE Dict(v.o, [n \in DOMAIN v.m |->
                               vals[CHOOSE i \in DOMAIN v.o : v.o[i] = n]])

(***************************************************************************)
(* Script.__init__ (_engine.py): the tasks of a source, or the error.      *)
(***************************************************************************)
InvalidScript(tokens) == Err("InvalidScript", tokens)

\* (mutant) the tasks are loaded before the other keys are looked at
ScriptInitLoadsFirst(src, cs) ==
    LET source == IF src.k = "list" THEN Dict(<<"tasks">>, [tasks |-> src])
                  ELSE src
        tasks == IF "tasks" \in DOMAIN source.m THEN source.m.tasks ELSE None
        loaded == [i \in DOMAIN tasks.items |-> _load_task(tasks.items[i], cs)]
    IN  IF ~Truthy(tasks)
        THEN InvalidScript(<<"At least one task is required">>)
        ELSE IF tasks.k # "list"
        THEN InvalidScript(<<"Tasks must be a list">>)
        ELSE IF FirstErr(loaded) # NoErr THEN FirstErr(loaded)
        ELSE IF DOMAIN source.m # {"tasks"}
        THEN InvalidScript(<<"Only tasks are currently supported for a script">>)
        ELSE List(loaded)

\* (mutant) a list is taken as the tasks without a look at it
ScriptInitBareList(src, cs) ==
    LET source == IF src.k = "list" THEN Dict(<<"tasks">>, [tasks |-> src])
                  ELSE src
        tasks == IF "tasks" \in DOMAIN source.m THEN source.m.tasks ELSE None
        loaded == [i \in DOMAIN tasks.items |-> _load_task(tasks.items[i], cs)]
    IN  IF src.k # "list" /\ ~Truthy(tasks)
        THEN InvalidScript(<<"At least one task is required">>)
        ELSE IF tasks.k # "list"
        THEN InvalidScript(<<"Tasks must be a list">>)
        ELSE IF DOMAIN source.m # {"tasks"}
        THEN InvalidScript(<<"Only tasks are currently supported for a script">>)
        ELSE IF FirstErr(loaded) # NoErr THEN FirstErr(loaded)
        ELSE List(loaded)

ScriptInit(src, cs) ==
    LET source == IF src.k = "list" THEN Dict(<<"tasks">>, [tasks |-> src])
                  ELSE src
        tasks == IF "tasks" \in DOMAIN source.m THEN source.m.tasks ELSE None
        loaded == [i \in DOMAIN tasks.items |-> _load_task(tasks.items[i], cs)]
    IN  IF ~Truthy(tasks)
        THEN InvalidScript(<<"At least one task is required">>)
        ELSE IF tasks.k # "list"
        THEN InvalidScript(<<"Tasks must be a list">>)
        ELSE IF DOMAIN source.m # {"tasks"}
        THEN InvalidScript(<<"Only tasks are currently supported for a script">>)
        ELSE IF FirstErr(loaded) # NoErr THEN FirstErr(loaded)
        ELSE List(loaded)

(***************************************************************************)
(* The scripts and contexts the executions are checked for.                *)
(*                                                                         *)
(* A source is a list of definitions: a first task, which is any task of   *)
(* FirstTasks, followed by up to MaxTasks - 1 tasks of LaterTasks.         *)
(* FirstTasks combines every body with every `when`, ignore_errors,        *)
(* register and loop of the sets below, and has the blocks of every two    *)
(* children, looped or not, with and without ignore_errors.                *)
(***************************************************************************)
Absent == [k |-> "absent"]

Definition(body, when, ignore_errors, register, loop) ==
    DictOf(<<body>> \o
           SelectSeq(<< <<"when", when>>, <<"ignore_errors", ignore_errors>>,
                        <<"register", register>>, <<"loop", loop>> >>,
                     LAMBDA p : p[2] # Absent))

ItemValues == {Num(1), None}

\* The literal loops: MaxItems items, at most one of them None.
LoopLists ==
    {List(s) : s \in {t \in [1..MaxItems -> ItemValues] :
                        Cardinality({i \in 1..MaxItems : t[i] = None}) <= 1}}

Bodies ==
    { <<"vars", DictOf(<< <<"x", Tmpl(Var("item"))>> >>)>>,
      <<"fail", Text("boom")>>,
      <<"return", Tmpl(Var("item"))>>,
      <<"test", DictOf(<< <<"object", Tmpl(Var("item"))>>,
                          <<"number", Tmpl(Var("item"))>> >>)>>,
      <<"test", DictOf(<< <<"object", Tmpl(BadExpr)>> >>)>> }

Whens ==
    { Absent,
      Bare(NotNone("item")),
      List(<<Bare(Lit(Bool(TRUE))), Tmpl(NotNone("item"))>>),
      Bare(Lit(Bool(FALSE))),
      Bare(BadExpr) }

Flags == {Absent, Bool(TRUE)}
Registers == {Absent, Name("r")}
Loops == {Absent} \cup LoopLists

LeafTasks ==
    {Definition(b, w, ie, rg, lp) :
        b \in Bodies, w \in Whens, ie \in Flags, rg \in Registers, lp \in Loops}

\* The children of the blocks.
Children ==
    { Definition(<<"return", Num(1)>>, Absent, Bool(TRUE), Absent, Absent),
      Definition(<<"fail", Text("boom")>>, Absent, Absent, Absent, Absent),
      Definition(<<"fail", Text("boom")>>, Absent, Bool(TRUE), Name("r"), Absent),
      Definition(<<"vars", DictOf(<< <<"x", Num(1)>> >>)>>,
                 Absent, Absent, Absent, Absent),
      Definition(<<"test", DictOf(<< <<"object", Tmpl(Var("x"))>> >>)>>,
                 Bare(NotNone("item")), Absent, Name("r"), Absent),
      Definition(<<"test", DictOf(<< <<"object", Tmpl(BadExpr)>> >>)>>,
                 Absent, Bool(TRUE), Name("r"), Absent),
      Definition(<<"log", DictOf(<< <<"info", Text("hello")>> >>)>>,
                 Absent, Absent, Absent, Absent),
      Definition(<<"log", DictOf(<< <<"info", Text("hello")>> >>)>>,
                 Bare(BadExpr), Bool(TRUE), Absent, Absent),
      Definition(<<"return", Tmpl(Var("item"))>>, Bare(NotNone("item")), Absent,
                 Absent, List(<<None, Num(2)>>)),
      Definition(<<"block",
                   List(<<Definition(<<"return", Num(2)>>,
                                     Absent, Absent, Absent, Absent)>>)>>,
                 Absent, Bool(TRUE), Absent, Absent) }

\* A block is looped over the items 1, 1, None, ... or not at all.
BlockLoops ==
    {Absent, List([i \in 1..MaxItems |-> IF i <= 2 THEN Num(1) ELSE None])}
Blocks ==
    {Definition(<<"block", List(<<a, b>>)>>, Absent, ie, Absent, lp) :
        a \in Children, b \in Children, ie \in Flags, lp \in BlockLoops}
FirstTasks == LeafTasks \cup Blocks

LaterTasks ==
    { Definition(<<"test", DictOf(<< <<"object", Tmpl(Var("r"))>> >>)>>,
                 Absent, Absent, Name("seen"), Absent),
      Definition(<<"return", Tmpl(Var("x"))>>, Absent, Absent, Absent, Absent),
      Definition(<<"fail", Text("late")>>, Absent, Absent, Absent, Absent) }

\* The tasks after the first one: at most n of LaterTasks, in which
\* nothing follows a `return` and at most one task follows a `fail`.
RECURSIVE Tails(_)
Tails(n) ==
    IF n = 0 THEN {<<>>}
    ELSE Tails(n - 1) \cup
         {Append(t, d) :
             t \in {u \in Tails(n - 1) :
                      /\ Len(u) = n - 1
                      /\ \A i \in DOMAIN u : u[i].o[1] # "return"
                      /\ \A i \in 1..(Len(u) - 1) : u[i].o[1] # "fail"},
             d \in LaterTasks}
Sources == {List(<<first>> \o tail) :
                first \in FirstTasks, tail \in Tails(MaxTasks - 1)}

(***************************************************************************)
(* More scripts, after the tests of the repository: sources that are not   *)
(* lists, definitions that cannot be loaded, parameters that validate      *)
(* rejects, a body with a wrong result, a loop and a result that cannot be *)
(* evaluated, blocks whose children cannot be loaded or read what an       *)
(* earlier child wrote, and `vars` of several keys.                        *)
(***************************************************************************)
Plain(body) == Definition(body, Absent, Absent, Absent, Absent)
BlockOf(children, when, ignore_errors) ==
    Definition(<<"block", List(children)>>, when, ignore_errors, Absent, Absent)

SetX == Plain(<<"vars", DictOf(<< <<"x", Num(1)>> >>)>>)
ReturnX == Plain(<<"return", Tmpl(Var("x"))>>)
SeeR == Definition(<<"test", DictOf(<< <<"object", Tmpl(Var("r"))>> >>)>>,
                   Absent, Absent, Name("seen"), Absent)

\* test_tasks_unknown_task, test_tasks_ambiguous and a control key of a
\* wrong type
Unknown == DictOf(<< <<"foo", None>> >>)
Ambiguous == DictOf(<< <<"test", None>>, <<"return", None>> >>)
BadFlag == Definition(<<"log", DictOf(<< <<"info", Text("hello")>> >>)>>,
                      Absent, Text("yes"), Absent, Absent)
Unloadable == {Unknown, Ambiguous, BadFlag, EmptyDict}

UnloadableSources ==
    UNION {{List(<<bad>>), List(<<SetX, bad>>), List(<<bad, SetX>>)} :
              bad \in Unloadable}

\* test_tasks_required, test_tasks_invalid_type, test_tasks_extra_options,
\* test_execute
ScriptSources ==
    { EmptyDict,
      List(<<>>),
      DictOf(<< <<"tasks", List(<<>>)>> >>),
      DictOf(<< <<"tasks", Num(42)>> >>),
      DictOf(<< <<"tasks", Num(0)>> >>),
      DictOf(<< <<"tasks", Text("abc")>> >>),
      DictOf(<< <<"foo", Num(42)>> >>),
      DictOf(<< <<"tasks", List(<<SetX, ReturnX>>)>>, <<"foo", Num(42)>> >>),
      DictOf(<< <<"foo", Num(42)>>, <<"tasks", List(<<Unknown>>)>> >>),
      DictOf(<< <<"tasks", List(<<SetX, ReturnX>>)>> >>),
      List(<<SetX, ReturnX>>) }

\* test_fail_msg_required and the other errors of Task.validate
Misshapen ==
    {Definition(b, Absent, ie, Absent, Absent) :
        b \in { <<"fail", EmptyDict>>,
                <<"fail", None>>,
                <<"test", DictOf(<< <<"object", Num(1)>>, <<"bogus", Num(2)>> >>)>>,
                <<"test", DictOf(<< <<"object", Num(1)>>,
                                    <<"number", Text("abc")>> >>)>>,
                <<"log", None>> },
        ie \in Flags}
MisshapenSources ==
    UNION {{List(<<d>>), List(<<SetX, d, ReturnX>>)} : d \in Misshapen}

\* test_execution_wrong_result
WrongSources ==
    {List(<<Definition(<<"wrong", DictOf(<< <<"object", Num(1)>> >>)>>,
                       Absent, ie, Name("r"), Absent), SeeR>>) : ie \in Flags}

\* test_execute_fail_unexpected, test_execute_finish_invalid: exceptions
\* that reach Script.__call__ from outside of _execute_one
Unexpected ==
    {Definition(<<"test", DictOf(<< <<"object", Num(1)>> >>)>>,
                Absent, ie, Absent, Tmpl(BadExpr)) : ie \in Flags}
    \cup
    {Definition(<<"return", DictOf(<< <<"result", DictOf(<< <<"a", e>> >>)>> >>)>>,
                Absent, ie, Absent, Absent) :
        e \in {Tmpl(BadExpr), Tmpl(Var("x"))}, ie \in Flags}
UnexpectedSources ==
    UNION {{List(<<d, ReturnX>>), List(<<SetX, d, ReturnX>>)} : d \in Unexpected}

\* Blocks with a child that cannot be loaded
UnloadableBlocks ==
    {BlockOf(children, when, ie) :
        children \in {<<SetX, Unknown>>, <<Ambiguous>>, <<BadFlag, SetX>>},
        when \in {Absent, Bare(Lit(Bool(FALSE)))},
        ie \in Flags}
UnloadableBlockSources ==
    UNION {{List(<<b>>), List(<<SetX, b, ReturnX>>)} : b \in UnloadableBlocks}

\* test_block: children that read what an earlier child wrote, with the
\* payload a mapping, a string, a list, and in the loop
ReadingChildren ==
    { Plain(<<"return", Tmpl(Var("x"))>>),
      Plain(<<"return", DictOf(<< <<"result", Tmpl(Var("x"))>> >>)>>),
      Plain(<<"return", List(<<Tmpl(Var("x"))>>)>>),
      Definition(<<"test", DictOf(<< <<"object", Tmpl(Var("item"))>> >>)>>,
                 Absent, Absent, Name("r"), List(<<Tmpl(Var("x")), Num(2)>>)),
      Definition(<<"test", DictOf(<< <<"object", Tmpl(Var("item"))>> >>)>>,
                 Absent, Absent, Name("r"), Tmpl(Var("x"))),
      Definition(<<"return", Tmpl(Var("item"))>>,
                 Absent, Absent, Absent, List(<<Num(2), Num(1)>>)) }
SetXs == Plain(<<"vars", DictOf(<< <<"x", List(<<Num(1), Num(2)>>)>> >>)>>)
ReadingSources ==
    UNION {{List(<<BlockOf(<<w, d>>, Absent, Absent), SeeR>>),
            List(<<w, d, SeeR>>)} : w \in {SetX, SetXs}, d \in ReadingChildren}

\* test_vars: several keys, the later ones reading the earlier ones
VarsSources ==
    {List(<<Plain(<<"vars", DictOf(<< <<"a", a>>, <<"b", b>> >>)>>), d>>) :
        a \in {Num(1), Tmpl(Var("item"))},
        b \in {Num(2), Tmpl(Var("a")), Tmpl(BadExpr)},
        d \in { Plain(<<"return", Tmpl(Add(Var("a"), Var("b")))>>),
                Definition(<<"test", DictOf(<< <<"object", Tmpl(Add(Var("a"), Var("b")))>> >>)>>,
                           Absent, Absent, Name("seen"), Absent) }}

\* test_long_with_builtins: results that hold mappings and lists
ResultValues ==
    { DictOf(<< <<"a", DictOf(<< <<"b", Tmpl(Var("x"))>> >>)>> >>),
      DictOf(<< <<"a", List(<<DictOf(<< <<"b", Num(1)>> >>)>>)>> >>),
      List(<<DictOf(<< <<"a", Num(1)>> >>)>>),
      List(<<Num(1), List(<<Tmpl(Var("x"))>>)>>) }
ResultSources ==
    UNION {{List(<<SetX, Plain(<<"return", DictOf(<< <<"result", v>> >>)>>)>>),
            List(<<SetX, Plain(<<"return", v>>)>>)} : v \in ResultValues}

\* test_wrong_top_level, test_unexpected_top_level: control keys of a
\* wrong type, a key that is none, and the string "t"
Controlled ==
    {DictOf(<< <<"test", DictOf(<< <<"object", Num(1)>> >>)>>, <<key, v>> >>) :
        key \in (KnownParameters \ {"when"}) \cup {"key"},
        v \in {Num(42), Text("t")}}
ControlSources ==
    UNION {{List(<<d>>), List(<<SetX, d>>)} : d \in Controlled}

\* `when` of a wrong type: a number, a mapping, a list of a number
WrongWhens ==
    { Num(42), DictOf(<< <<"x", Num(0)>> >>), List(<<Num(1)>>) }
WhenSources ==
    UNION {{List(<<Definition(<<"test", DictOf(<< <<"object", Num(1)>> >>)>>,
                              w, ie, Name("r"), Absent)>>),
            List(<<SetX,
                   Definition(<<"test", DictOf(<< <<"object", Num(1)>> >>)>>,
                              w, ie, Name("r"), Absent)>>)} :
              w \in WrongWhens, ie \in Flags}

\* test_wrong_params, test_wrong_keys, test_singleton: the payloads
Payloads ==
    { None, EmptyDict, Num(42), Text("t"), List(<<Num(1)>>),
      DictOf(<< <<"object", Num(1)>> >>),
      WithIntKeys(DictOf(<< <<"42", Text("t")>> >>), {"42"}) }
PayloadSources ==
    UNION {{List(<<DictOf(<< <<kind, p>> >>)>>),
            List(<<SetX, DictOf(<< <<kind, p>> >>)>>)} :
              kind \in {"test", "return", "fail", "vars", "log"}, p \in Payloads}

\* test_missing_required, test_unknown, test_one_required: parameters that
\* are missing, not known, or none at all, for a kind with two required
\* parameters, a free-form one, and `log`, whose parameters are optional
Shapes ==
    {DictOf(SelectSeq(<< <<"first", Num(1)>>, <<"second", Num(2)>>,
                         <<"other", Num(3)>> >>,
                      LAMBDA p : p[1] \in names)) :
        names \in SUBSET {"first", "second", "other"}}
ShapeSources ==
    {List(<<Definition(<<kind, p>>, Absent, ie, Name("r"), Absent), SeeR>>) :
        kind \in {"pair", "open", "log"}, p \in Shapes, ie \in Flags}

\* test_validate, test_invalid_value, test_eager_validation and
\* test_lazy_validation: typed and untyped parameters whose value is a
\* literal, a template of a variable that is not defined, or a template that
\* cannot be evaluated; at top level and as the child of a block
Typed ==
    {Definition(<<"test", DictOf(SelectSeq(<< <<"object", o>>, <<"number", n>>,
                                              <<"message", m>> >>,
                                           LAMBDA p : p[2] # Absent))>>,
                Absent, ie, Name("r"), Absent) :
        o \in {Num(1), Tmpl(Var("nf")), Tmpl(BadExpr)},
        n \in {Absent, Bare(Lit(Num(42))), Tmpl(Var("nf")), Text("t")},
        m \in {Absent, Num(7)},
        ie \in Flags}
    \cup
    {Definition(<<"pair", DictOf(<< <<"first", Tmpl(BadExpr)>>,
                                   <<"second", Num(2)>> >>)>>,
                Absent, ie, Name("r"), Absent) : ie \in Flags}
    \cup
    {Definition(<<"return", DictOf(<< <<"result", Tmpl(BadExpr)>> >>)>>,
                Absent, ie, Name("r"), Absent) : ie \in Flags}
TypedSources ==
    UNION {{List(<<d, SeeR>>),
            List(<<BlockOf(<<d>>, Absent, Absent), SeeR>>)} : d \in Typed}

\* test_execute_fail: scripts for an engine whose kind `fail` is FailTask
EngineSources ==
    { List(<<DictOf(<< <<"fail", None>> >>)>>),
      List(<<DictOf(<< <<"fail", Text("t")>> >>)>>),
      List(<<Definition(<<"fail", None>>, Absent, Bool(TRUE), Name("r"), Absent),
             SeeR>>) }

\* Results of a body that returns the keys of the status fields
StatusSources ==
    {List(<<Definition(<<"status", DictOf(<< <<"object", Num(1)>> >>)>>,
                       w, ie, Name("r"), lp), SeeR>>) :
        w \in {Absent, Bare(NotNone("item"))},
        ie \in Flags,
        lp \in {Absent, List(<<Num(1), None>>)}}

\* Loops that cannot be resolved: a template that raises, templates of a
\* number and of None, and a template of r, which is a number, or is not
\* defined, with the caller's context
FailingLoops ==
    { Tmpl(BadExpr), Tmpl(Lit(Num(42))), Bare(Lit(Num(42))), Tmpl(Lit(None)),
      Tmpl(Var("r")) }
LoopSources ==
    {List(<<Definition(body, Absent, ie, Name("r"), lp), SeeR>>) :
        body \in { <<"test", DictOf(<< <<"object", Num(1)>> >>)>>,
                   <<"block", List(<<Plain(<<"vars", DictOf(<< <<"x", Num(1)>> >>)>>)>>)>> },
        ie \in Flags, lp \in FailingLoops}

\* `when` lists in which a condition that raises comes after a false one,
\* after true ones and first, and the empty list
OrderedWhens ==
    {List(w) : w \in
        { <<Bare(Lit(Bool(FALSE))), Bare(BadExpr)>>,
          <<Bare(Lit(Bool(TRUE))), Bare(BadExpr)>>,
          <<Bare(BadExpr), Bare(Lit(Bool(FALSE)))>>,
          <<Bare(Lit(Bool(TRUE))), Bare(Lit(Bool(FALSE))), Bare(BadExpr)>>,
          <<Bare(Lit(Bool(TRUE))), Bare(Lit(Bool(TRUE))), Bare(BadExpr)>>,
          <<>> }}
OrderSources ==
    {List(<<Definition(<<"test", DictOf(<< <<"object", Num(1)>> >>)>>,
                       w, ie, Name("r"), Absent), SeeR>>) :
        w \in OrderedWhens, ie \in Flags}

\* Blocks of three children, the second of which fails, with and without
\* ignore_errors on the child and on the block; the block registers r
FailingChildren ==
    { Definition(<<"fail", Text("boom")>>, Absent, ie, Absent, Absent) :
         ie \in Flags }
    \cup { Definition(<<"test", DictOf(<< <<"object", Num(1)>> >>)>>,
                      Bare(BadExpr), Absent, Absent, Absent) }
ShieldedSources ==
    {List(<<Definition(<<"block",
                         List(<<Plain(<<"vars", DictOf(<< <<"x", Num(1)>> >>)>>),
                                child,
                                Plain(<<"vars", DictOf(<< <<"y", Num(2)>> >>)>>)>>)>>,
                       Absent, ie, Name("r"), Absent),
            SeeR,
            Plain(<<"return", Tmpl(Var("x"))>>)>>) :
        child \in FailingChildren, ie \in Flags}

Scenarios ==
    LoopSources \cup ShieldedSources \cup OrderSources \cup UnloadableSources \cup ScriptSources \cup MisshapenSources
    \cup WrongSources \cup UnexpectedSources \cup UnloadableBlockSources
    \cup ReadingSources \cup VarsSources \cup ResultSources
    \cup StatusSources \cup ControlSources \cup WhenSources
    \cup PayloadSources \cup ShapeSources \cup TypedSources
    \cup EngineSources

\* The context of the caller: a fresh one, or one that has variables.
Contexts == { [n \in {} |-> None],
              [item |-> Num(3), r |-> Num(2)] }

(***************************************************************************)
(* The state of script = Script(engine, source) and of the calls           *)
(* script(context) that follow it.                                         *)
(*   pc       "new" before Script.__init__, "run" while Script.__call__    *)
(*            runs, "done" after it returned or raised                     *)
(*   source   the script source                                            *)
(*   tasks    Script.tasks                                                 *)
(*   stack    the frames of Script.__call__ ("script"), Task.__call__      *)
(*            ("call") and Block.execute ("block"), innermost last         *)
(*   ctxs     the Context objects created so far; ctxs[1] is the context   *)
(*            of the execution, the later ones are the copies of loops     *)
(*   exc      the exception that is propagating, or NoExc                  *)
(*   outcome  what execute returned or raised                              *)
(*   trace    the calls of Task._execute_one so far, in order              *)
(*   calls    context: what the context of a call holds when the call is   *)
(*            made; past: the outcome, trace and contexts of the calls of  *)
(*            the script that have ended before the current one            *)
(***************************************************************************)
VARIABLES pc, source, tasks, stack, ctxs, exc, outcome, trace, calls

vars == <<pc, source, tasks, stack, ctxs, exc, outcome, trace, calls, engine>>

Top == stack[Len(stack)]
Pop(st) == SubSeq(st, 1, Len(st) - 1)

\* The caller's frame goes on to its next task.
Advance(st) == [st EXCEPT ![Len(st)].i = @ + 1]

\* (mutant) the newest Result comes first
CollectFirst(st, res) ==
    [st EXCEPT ![Len(st)].results = <<res>> \o @, ![Len(st)].i = @ + 1]
\* _execute_one returned res to the frame on top.
Collect(st, res) ==
    [st EXCEPT ![Len(st)].results = Append(@, res), ![Len(st)].i = @ + 1]

\* The items of a loop; the strings that are looped over have one character.
LoopItems(v) ==
    CASE v.k = "list" -> v.items
      [] v.k = "ns" -> [i \in DOMAIN v.o |-> Name(v.o[i])]
      [] v.k = "str" -> <<v>>
      [] OTHER -> <<>>

\* (mutant) with ignore_errors a loop that cannot be resolved has no items
TaskCallLenient(task, path, c, cs) ==
    LET loop == EvalRec(task.loop, cs, c)
        frame(items) == [k |-> "frame", f |-> "call", task |-> task, path |-> path, c |-> c,
                         looped |-> task.loop # None, items |-> items,
                         i |-> 0, results |-> <<>>]
    IN  IF task.loop = None THEN frame(<<None>>)
        ELSE IF IsErr(loop) THEN IF task.ignore_errors THEN frame(<<>>) ELSE loop
        ELSE IF loop.k \notin {"list", "undef", "ns", "str"}
        THEN IF task.ignore_errors THEN frame(<<>>)
             ELSE Err("TypeError", <<"object is not iterable: ", loop.k>>)
        ELSE frame(LoopItems(loop))
\* The start of Task.__call__(context): the frame of the call, or the
\* error raised by the evaluation of the loop.
TaskCall(task, path, c, cs) ==
    LET loop == EvalRec(task.loop, cs, c)
        frame(items) == [k |-> "frame", f |-> "call", task |-> task, path |-> path, c |-> c,
                         looped |-> task.loop # None, items |-> items,
                         i |-> 0, results |-> <<>>]
    IN  IF task.loop = None THEN frame(<<None>>)
        ELSE IF IsErr(loop) THEN loop
        ELSE IF loop.k \notin {"list", "undef", "ns", "str"}
        THEN Err("TypeError", <<"object is not iterable: ", loop.k>>)
        ELSE frame(LoopItems(loop))

\* (mutant) `item` is bound before the copy is made
IterationContextsLeaks(fr, cs) ==
    IF fr.looped
    THEN Append([cs EXCEPT ![fr.c] = ("item" :> fr.items[fr.i + 1]) @@ @],
                ("item" :> fr.items[fr.i + 1]) @@ cs[fr.c])
    ELSE cs
\* The contexts after `context = context.copy(); context["item"] = item`,
\* and the index of the context the iteration runs against.
IterationContexts(fr, cs) ==
    IF fr.looped
    THEN Append(cs, ("item" :> fr.items[fr.i + 1]) @@ cs[fr.c])
    ELSE cs

IterationContext(fr, cs) == IF fr.looped THEN Len(cs) + 1 ELSE fr.c

\* One entry of the trace, the log of the calls of _execute_one: the task
\* at path was called for its n-th item and got as far as phase:
\*   "condition failed", "skipped"      the condition raised, was false
\*   "params failed"                    the copy of the parameters raised
\*   "validate failed"                  validate raised
\*   "block"                            execute of a block was entered
\*   "ok", "exc", "finish"              execute returned, raised, raised
\*                                      FinishScript
\*   "wrong result"                     execute returned neither None nor a
\*                                      mapping
\* arg is the value the body worked on (what the test kind passed to its
\* spy, what `return` raised FinishScript with), error the exception that
\* was raised.  shielded tells that the call was made from within a block
\* whose task, or a task around it, ignores errors.
Event(st, phase, arg, error) ==
    [path |-> st[Len(st)].path, n |-> st[Len(st)].i + 1,
     task |-> st[Len(st)].task, phase |-> phase, arg |-> arg, error |-> error,
     shielded |-> \E s \in 1..(Len(st) - 1) :
                     st[s].f = "call" /\ st[s].task.ignore_errors]

\* The ways _execute_one of the call on top of st ends: it returns res, or
\* e leaves it (and with it Task.__call__).
Returns(st, res, cs, ev) ==
    [stack |-> Collect(st, res), ctxs |-> cs, exc |-> NoExc, ev |-> ev]
\* (mutant) the Results of the items that were executed are registered
\* before the error leaves the call
RaisesRegistering(st, e, cs, ev) ==
    LET top == st[Len(st)]
    IN  [stack |-> Pop(st),
         ctxs |-> IF top.task.register = None THEN cs
                  ELSE [cs EXCEPT ![top.c] =
                           (TextOf(top.task.register) :> List(top.results)) @@ @],
         exc |-> e, ev |-> ev]
Raises(st, e, cs, ev) ==
    [stack |-> Pop(st), ctxs |-> cs, exc |-> e, ev |-> ev]
\* (mutant) ignore_errors is not looked at
ExceptReraises(st, e, cs, ev) ==
    Raises(st, BodyError(st[Len(st)].task, e), cs, ev)
\* except Exception as exc: around validate and execute
Except(st, e, cs, ev) ==
    IF st[Len(st)].task.ignore_errors
    THEN Returns(st, Result(NoValues, Failure(e), FALSE), cs, ev)
    ELSE Raises(st, BodyError(st[Len(st)].task, e), cs, ev)
\* raise RuntimeError("a task must return None or a mapping, got ..."),
\* which is raised within the try block, so that its except clause gets it
WrongResultError(v) ==
    Err("RuntimeError", <<"a task must return None or a mapping, got ",
                          TextOf(v)>>)
\* (mutant) ignore_errors covers the condition as well
ConditionExceptIgnores(st, e, cs) ==
    Except(st, e, cs, Event(st, "condition failed", None, e))
\* except Exception as exc: around the evaluation of the condition
ConditionExcept(st, e, cs) ==
    Raises(st, ConditionError(st[Len(st)].task, e), cs,
           Event(st, "condition failed", None, e))

\* Task._execute_one, from its end to its start: what follows execute,
\* validate, the copy of the parameters and the condition.  cs and c are
\* the contexts and the context of the iteration.
Executed(st, body) ==
    IF body.st = "finish"
    THEN Raises(st, FinishScript(body.v), body.cs,
                Event(st, "finish", body.v, NoErr))
    ELSE IF body.st = "exc"
    THEN Except(st, body.e, body.cs, Event(st, "exc", None, body.e))
    ELSE IF body.st = "value"
    THEN Except(st, WrongResultError(body.v), body.cs,
                Event(st, "wrong result", body.v, WrongResultError(body.v)))
    ELSE Returns(st, Result(body.values, None, FALSE), body.cs,
                 Event(st, "ok",
                       IF st[Len(st)].task.kind = "test"
                       THEN body.values.result ELSE None,
                       NoErr))

\* (mutant) the error of validate is raised as it is, as at load time
ValidatedRaw(st, cs, c, valid) ==
    IF IsErr(valid)
    THEN Raises(st, valid, cs, Event(st, "validate failed", None, valid))
    ELSE IF st[Len(st)].task.kind = "block"
    THEN [stack |-> Append(st, [f |-> "block", path |-> st[Len(st)].path,
                                c |-> c, tasks |-> valid.m.tasks.items,
                                i |-> 0]),
          ctxs |-> cs, exc |-> NoExc, ev |-> Event(st, "block", None, NoErr)]
    ELSE Executed(st, execute(st[Len(st)].task.kind, valid, cs, c))

Validated(st, cs, c, valid) ==
    IF IsErr(valid)
    THEN Except(st, valid, cs, Event(st, "validate failed", None, valid))
    ELSE IF st[Len(st)].task.kind = "block"
    THEN [stack |-> Append(st, [f |-> "block", path |-> st[Len(st)].path,
                                c |-> c, tasks |-> valid.m.tasks.items,
                                i |-> 0]),
          ctxs |-> cs, exc |-> NoExc, ev |-> Event(st, "block", None, NoErr)]
    ELSE Executed(st, execute(st[Len(st)].task.kind, valid, cs, c))

Parameterized(st, cs, c, params) ==
    IF IsErr(params)
    THEN Raises(st, params, cs, Event(st, "params failed", None, params))
    ELSE Validated(st, cs, c,
                   IF st[Len(st)].task.kind = "block"
                   THEN BlockValidate(params, cs)
                   ELSE validate(st[Len(st)].task.kind, params, cs))

\* (mutant) the parameters are validated whatever the condition says
ConditionedAlways(st, cs, c, guard) ==
    IF IsErr(guard) THEN ConditionExcept(st, guard, cs)
    ELSE Parameterized(st, cs, c, NewParams(st[Len(st)].task, cs, c))

Conditioned(st, cs, c, guard) ==
    IF IsErr(guard) THEN ConditionExcept(st, guard, cs)
    ELSE IF ~guard.b
    THEN Returns(st, Result(NoValues, None, TRUE), cs,
                 Event(st, "skipped", None, NoErr))
    ELSE Parameterized(st, cs, c, NewParams(st[Len(st)].task, cs, c))

\* The condition of the task, evaluated in context c: a boolean or an error.
Condition(task, cs, c) ==
    IF task.when = None THEN Bool(TRUE) ELSE WhenCall(task.when, cs, c)

\* Task._execute_one for the next item of the call on top of the stack.
ExecuteOneResult(st, cs) ==
    Conditioned(st, IterationContexts(st[Len(st)], cs),
                IterationContext(st[Len(st)], cs),
                Condition(st[Len(st)].task,
                          IterationContexts(st[Len(st)], cs),
                          IterationContext(st[Len(st)], cs)))

(***************************************************************************)
(* One execution: Engine.execute(source, context).                         *)
(***************************************************************************)
Init ==
    /\ pc = "new"
    /\ source \in Sources \cup Scenarios
    /\ tasks = <<>>
    /\ stack = <<>>
    /\ ctxs \in {<<cx>> : cx \in Contexts}
    /\ exc = NoExc
    /\ outcome = [st |-> "none"]
    /\ trace = <<>>
    /\ calls = [context |-> ctxs[1], past |-> <<>>]
    /\ engine = [builtins |-> _BUILTINS, tasks |-> CallerTasks @@ _BUILTINS,
                 others |-> <<>>, given |-> CallerTasks, error |-> NoErr,
                 made |-> 1]

\* engine = miniscript.Engine(given): the caller makes one more engine
\* before the script is loaded.  An engine that was made runs the script,
\* the one before it is kept; when Engine raises, the caller goes on with
\* the engine it had.  At most MaxEngines calls of Engine are made, for the
\* scripts of EngineSources.
NewEngine ==
    /\ pc = "new" /\ source \in EngineSources
    /\ engine.made < MaxEngines
    /\ \E given \in TasksArguments :
          LET r == EngineInit(engine.builtins, given)
          IN  engine' =
                 IF IsErr(r)
                 THEN [engine EXCEPT !.given = given, !.error = r,
                                     !.made = @ + 1]
                 ELSE [builtins |-> r.builtins, tasks |-> r.tasks,
                       others |-> Append(engine.others, engine.tasks),
                       given |-> given, error |-> NoErr,
                       made |-> engine.made + 1]
    /\ UNCHANGED <<pc, source, tasks, stack, ctxs, exc, outcome, trace, calls>>

\* Script(engine, source): Script.__init__
LoadScript ==
    /\ pc = "new"
    /\ LET r == ScriptInit(source, ctxs)
       IN  IF IsErr(r)
           THEN /\ pc' = "done"
                /\ outcome' = [st |-> "raised", e |-> r]
                /\ UNCHANGED <<tasks, stack>>
           ELSE /\ pc' = "run"
                /\ tasks' = r.items
                /\ stack' = <<[f |-> "script", i |-> 0]>>
                /\ UNCHANGED outcome
    /\ UNCHANGED <<source, ctxs, exc, trace, calls, engine>>

\* Script.__call__: item(context) for the next task of the script
ScriptNext ==
    /\ pc = "run" /\ exc = NoExc
    /\ Top.f = "script" /\ Top.i < Len(tasks)
    /\ LET r == TaskCall(tasks[Top.i + 1], <<Top.i + 1>>, 1, ctxs)
       IN  IF IsErr(r) THEN exc' = r /\ UNCHANGED stack
           ELSE stack' = Append(stack, r) /\ UNCHANGED exc
    /\ UNCHANGED <<pc, source, tasks, ctxs, outcome, trace, calls, engine>>

\* Script.__call__: the loop over the tasks ends, the script returns None
ScriptEnd ==
    /\ pc = "run" /\ exc = NoExc
    /\ Top.f = "script" /\ Top.i = Len(tasks)
    /\ pc' = "done"
    /\ stack' = <<>>
    /\ outcome' = [st |-> "returned", v |-> None]
    /\ UNCHANGED <<source, tasks, ctxs, exc, trace, calls, engine>>

\* (mutant) every child is called with a copy of the context of the block
BlockNextCopies ==
    /\ pc = "run" /\ exc = NoExc
    /\ Top.f = "block" /\ Top.i < Len(Top.tasks)
    /\ LET cs == Append(ctxs, ctxs[Top.c])
           r == TaskCall(Top.tasks[Top.i + 1], Append(Top.path, Top.i + 1),
                         Len(cs), cs)
       IN  /\ ctxs' = cs
           /\ IF IsErr(r) THEN exc' = r /\ UNCHANGED stack
              ELSE stack' = Append(stack, r) /\ UNCHANGED exc
    /\ UNCHANGED <<pc, source, tasks, outcome, trace, calls, engine>>

\* Block.execute: task(context) for the next child
BlockNext ==
    /\ pc = "run" /\ exc = NoExc
    /\ Top.f = "block" /\ Top.i < Len(Top.tasks)
    /\ LET r == TaskCall(Top.tasks[Top.i + 1], Append(Top.path, Top.i + 1),
                         Top.c, ctxs)
       IN  IF IsErr(r) THEN exc' = r /\ UNCHANGED stack
           ELSE stack' = Append(stack, r) /\ UNCHANGED exc
    /\ UNCHANGED <<pc, source, tasks, ctxs, outcome, trace, calls, engine>>

\* Block.execute returns None: _execute_one of the block makes its Result
BlockEnd ==
    /\ pc = "run" /\ exc = NoExc
    /\ Top.f = "block" /\ Top.i = Len(Top.tasks)
    /\ stack' = Collect(Pop(stack), Result(NoValues, None, FALSE))
    /\ UNCHANGED <<pc, source, tasks, ctxs, exc, outcome, trace, calls, engine>>

\* Task.__call__: one call of _execute_one
ExecuteOne ==
    /\ pc = "run" /\ exc = NoExc
    /\ Top.f = "call" /\ Top.i < Len(Top.items)
    /\ LET r == ExecuteOneResult(stack, ctxs)
       IN  /\ stack' = r.stack
           /\ ctxs' = r.ctxs
           /\ exc' = r.exc
           /\ trace' = Append(trace, r.ev)
    /\ UNCHANGED <<pc, source, tasks, outcome, calls, engine>>

\* (mutant) the Result of a task that was skipped is not registered
TaskReturnUnlessSkipped ==
    /\ pc = "run" /\ exc = NoExc
    /\ Top.f = "call" /\ Top.i = Len(Top.items)
    /\ LET task == Top.task
           value == IF Top.looped
                    THEN Dict(<<"results">>, [results |-> List(Top.results)])
                    ELSE Top.results[1]
       IN  ctxs' = IF task.register = None
                      \/ (~Top.looped /\ value.d.skipped = Bool(TRUE))
                   THEN ctxs
                   ELSE [ctxs EXCEPT ![Top.c] =
                            (TextOf(task.register) :> value) @@ @]
    /\ stack' = Advance(Pop(stack))
    /\ UNCHANGED <<pc, source, tasks, exc, outcome, trace, calls, engine>>

\* (mutant) the caller of a task that returned calls it again
TaskReturnStays ==
    /\ pc = "run" /\ exc = NoExc
    /\ Top.f = "call" /\ Top.i = Len(Top.items)
    /\ LET task == Top.task
           value == IF Top.looped
                    THEN Dict(<<"results">>, [results |-> List(Top.results)])
                    ELSE Top.results[1]
       IN  ctxs' = IF task.register = None THEN ctxs
                   ELSE [ctxs EXCEPT ![Top.c] =
                            (TextOf(task.register) :> value) @@ @]
    /\ stack' = Pop(stack)
    /\ UNCHANGED <<pc, source, tasks, exc, outcome, trace, calls, engine>>

\* (mutant) a loop registers the list of its Results, not a mapping
TaskReturnList ==
    /\ pc = "run" /\ exc = NoExc
    /\ Top.f = "call" /\ Top.i = Len(Top.items)
    /\ LET task == Top.task
           value == IF Top.looped THEN List(Top.results) ELSE Top.results[1]
       IN  ctxs' = IF task.register = None THEN ctxs
                   ELSE [ctxs EXCEPT ![Top.c] =
                            (TextOf(task.register) :> value) @@ @]
    /\ stack' = Advance(Pop(stack))
    /\ UNCHANGED <<pc, source, tasks, exc, outcome, trace, calls, engine>>

\* Task.__call__: after the last _execute_one, register and return
TaskReturn ==
    /\ pc = "run" /\ exc = NoExc
    /\ Top.f = "call" /\ Top.i = Len(Top.items)
    /\ LET task == Top.task
           value == IF Top.looped
                    THEN Dict(<<"results">>, [results |-> List(Top.results)])
                    ELSE Top.results[1]
       IN  ctxs' = IF task.register = None THEN ctxs
                   ELSE [ctxs EXCEPT ![Top.c] =
                            (TextOf(task.register) :> value) @@ @]
    /\ stack' = Advance(Pop(stack))
    /\ UNCHANGED <<pc, source, tasks, exc, outcome, trace, calls, engine>>

\* (mutant) the block goes on with its next child after an error
BlockRaiseSkipsChild ==
    /\ pc = "run" /\ exc # NoExc
    /\ Top.f = "block"
    /\ IF IsErr(exc) /\ Top.i + 1 < Len(Top.tasks)
       THEN stack' = Advance(stack) /\ exc' = NoExc
       ELSE stack' = Pop(stack) /\ UNCHANGED exc
    /\ UNCHANGED <<pc, source, tasks, ctxs, outcome, trace, calls, engine>>

\* (mutant) the block goes on with its next child after a `return`
BlockRaiseResumes ==
    /\ pc = "run" /\ exc # NoExc
    /\ Top.f = "block"
    /\ IF exc.k = "finish"
       THEN exc' = NoExc /\ stack' = Advance(stack)
       ELSE exc' = exc /\ stack' = Pop(stack)
    /\ UNCHANGED <<pc, source, tasks, ctxs, outcome, trace, calls, engine>>

\* An exception leaves Block.execute
BlockRaise ==
    /\ pc = "run" /\ exc # NoExc
    /\ Top.f = "block"
    /\ stack' = Pop(stack)
    /\ UNCHANGED <<pc, source, tasks, ctxs, exc, outcome, trace, calls, engine>>

\* (mutant) FinishScript is caught like an Exception
TaskExceptCatchesFinish ==
    /\ pc = "run" /\ exc # NoExc
    /\ Top.f = "call"
    /\ LET e == IF exc.k = "finish"
                THEN [k |-> "err", cls |-> "FinishScript", msg |-> <<>>]
                ELSE exc
           r == Except(stack, e, ctxs, None)
       IN  stack' = r.stack /\ exc' = r.exc
    /\ UNCHANGED <<pc, source, tasks, ctxs, outcome, trace, calls, engine>>

\* Task._execute_one: the body (a block) raised
TaskExcept ==
    /\ pc = "run" /\ exc # NoExc
    /\ Top.f = "call"
    /\ LET r == IF exc.k = "finish" THEN Raises(stack, exc, ctxs, None)
                ELSE Except(stack, exc, ctxs, None)
       IN  stack' = r.stack /\ exc' = r.exc
    /\ UNCHANGED <<pc, source, tasks, ctxs, outcome, trace, calls, engine>>

\* (mutant) the error of a task is logged and the next task is run
ScriptExceptContinues ==
    /\ pc = "run" /\ exc # NoExc
    /\ Top.f = "script"
    /\ exc' = NoExc
    /\ stack' = Advance(stack)
    /\ UNCHANGED <<pc, source, tasks, ctxs, outcome, trace, calls, engine>>

\* (mutant) an unexpected exception is raised as it is
ScriptErrorRaw(item, e) == e
\* Script.__call__: what `except Exception as exc` raises
ScriptError(item, e) ==
    ExecutionFailed(<<"Failed to execute task ", TextOf(item.name), ". ",
                      e.cls, ": ">> \o e.msg)

\* (mutant) the value of FinishScript is returned without a look at it
ScriptExceptUnchecked ==
    /\ pc = "run" /\ exc # NoExc
    /\ Top.f = "script"
    /\ LET item == tasks[Top.i + 1]
           value == materialize(exc.v, ctxs)
       IN  outcome' =
              IF exc.k = "finish"
              THEN IF IsErr(value)
                   THEN [st |-> "raised", e |-> ScriptError(item, value)]
                   ELSE [st |-> "returned", v |-> value]
              ELSE IF IsExecutionFailed(exc) THEN [st |-> "raised", e |-> exc]
              ELSE [st |-> "raised", e |-> ScriptError(item, exc)]
    /\ pc' = "done"
    /\ stack' = <<>>
    /\ exc' = NoExc
    /\ UNCHANGED <<source, tasks, ctxs, trace, calls, engine>>

\* Script.__call__: the except clauses around item(context)
ScriptExcept ==
    /\ pc = "run" /\ exc # NoExc
    /\ Top.f = "script"
    /\ LET item == tasks[Top.i + 1]
           value == materialize(exc.v, ctxs)
       IN  outcome' =
              IF exc.k = "finish"
              THEN IF IsErr(value)
                   THEN [st |-> "raised", e |-> ScriptError(item, value)]
                   ELSE IF value = Undefined
                   THEN [st |-> "raised",
                         e |-> ExecutionFailed(<<"Script returned undefined value">>)]
                   ELSE [st |-> "returned", v |-> value]
              ELSE IF IsExecutionFailed(exc) THEN [st |-> "raised", e |-> exc]
              ELSE [st |-> "raised", e |-> ScriptError(item, exc)]
    /\ pc' = "done"
    /\ stack' = <<>>
    /\ exc' = NoExc
    /\ UNCHANGED <<source, tasks, ctxs, trace, calls, engine>>

\* (mutant) the script is called with the context of the call before
ReExecuteSameContext ==
    /\ pc = "done" /\ tasks # <<>>
    /\ source \in Scenarios \/ Len(tasks) < MaxTasks - 1
    /\ Len(calls.past) < MaxCalls - 1
    /\ calls' = [calls EXCEPT !.past =
                    Append(@, [outcome |-> outcome, trace |-> trace,
                               ctxs |-> ctxs])]
    /\ pc' = "run"
    /\ stack' = <<[f |-> "script", i |-> 0]>>
    /\ ctxs' = <<ctxs[1]>>
    /\ outcome' = [st |-> "none"]
    /\ trace' = <<>>
    /\ UNCHANGED <<source, tasks, exc, engine>>

\* The script is called once more: script(context) with a context that
\* holds what the context of the first call held (script() with a
\* new Context(engine) when that one was empty).
\* The scripts that are called again are those of Scenarios and the ones of
\* Sources that have less than MaxTasks - 1 tasks; they are called MaxCalls
\* times.
ReExecute ==
    /\ pc = "done" /\ tasks # <<>>
    /\ source \in Scenarios \/ Len(tasks) < MaxTasks - 1
    /\ Len(calls.past) < MaxCalls - 1
    /\ calls' = [calls EXCEPT !.past =
                    Append(@, [outcome |-> outcome, trace |-> trace,
                               ctxs |-> ctxs])]
    /\ pc' = "run"
    /\ stack' = <<[f |-> "script", i |-> 0]>>
    /\ ctxs' = <<calls.context>>
    /\ outcome' = [st |-> "none"]
    /\ trace' = <<>>
    /\ UNCHANGED <<source, tasks, exc, engine>>

Next ==
    \/ LoadScript
    \/ ScriptNext
    \/ ScriptEnd
    \/ BlockNext
    \/ BlockEnd
    \/ ExecuteOne
    \/ TaskReturn
    \/ BlockRaise
    \/ TaskExcept
    \/ ScriptExcept
    \/ ReExecute
    \/ NewEngine

Spec == Init /\ [][Next]_vars

(***************************************************************************)
(* C1.  The top-level tasks run in declaration order, each at most once    *)
(* per execution (and per item of its loop); no body of a task starts      *)
(* before every earlier task of the script has returned (skipped,          *)
(* succeeded or failed and ignored); and when an exception other than the  *)
(* finish signal leaves a top-level task, the execution ends with that     *)
(* error without any further body.                                         *)
(***************************************************************************)
C1_Order ==
    /\ \A i, j \in DOMAIN trace :
          i < j => /\ trace[i].path[1] <= trace[j].path[1]
                   /\ trace[i].path = trace[j].path /\ Len(trace[i].path) = 1
                        => trace[i].n < trace[j].n
    /\ pc = "run" => \A i \in DOMAIN trace : trace[i].path[1] <= stack[1].i + 1

\* The step from the end of a call of the script to the start of the next
NewCall == pc = "done" /\ pc' = "run" /\ trace' = <<>>

C1_RaiseStops ==
    /\ (pc = "run" /\ exc # NoExc /\ exc.k # "finish" /\ Len(stack) = 1)
          => (pc' = "done" /\ outcome'.st = "raised" /\ trace' = trace)
    /\ pc = "done" => (trace' = trace \/ NewCall)

C1_DeclarationOrder == [](C1_Order) /\ [][C1_RaiseStops]_vars

\* Task 1 ran, task 2 ran and raised, task 3 never started.
C1_Witness ==
    /\ pc = "done" /\ outcome.st = "raised" /\ Len(tasks) = 3
    /\ \E i, j \in DOMAIN trace :
          /\ trace[i].path = <<1>> /\ trace[i].phase = "ok"
          /\ trace[j].path = <<2>> /\ trace[j].phase = "exc"

(***************************************************************************)
(* What the claims below speak of.                                         *)
(***************************************************************************)
\* Task.__call__ is about to call _execute_one for its next item.
AtItem == pc = "run" /\ exc = NoExc /\ Top.f = "call" /\ Top.i < Len(Top.items)
\* Task.__call__ has called _execute_one for all its items.
AtReturn == pc = "run" /\ exc = NoExc /\ Top.f = "call" /\ Top.i = Len(Top.items)
\* The call on top went on to its next item with one more Result.
Collects ==
    /\ pc' = "run" /\ exc' = NoExc
    /\ Len(stack') = Len(stack) /\ Top'.f = "call"
    /\ Top'.i = Top.i + 1
    /\ Len(Top'.results) = Len(Top.results) + 1
    /\ SubSeq(Top'.results, 1, Len(Top.results)) = Top.results
NewResult == Top'.results[Len(Top'.results)]
\* The contexts that exist are as they were.
SameContexts == \A k \in DOMAIN ctxs : ctxs'[k] = ctxs[k]
Last(seq) == seq[Len(seq)]
Tokens(msg) == {msg[i] : i \in DOMAIN msg}

(***************************************************************************)
(* C2.  A task with a `when` guard: when every condition evaluates truthy  *)
(* the body runs, once for the item; when a condition evaluates falsy      *)
(* (and none before it failed) the body does not run, the outcome is a     *)
(* Result with skipped = true, and the contexts are left as they were:     *)
(* the only key Task.__call__ then writes is the task's own register.      *)
(***************************************************************************)
Conditions ==
    LET d == Top.task.when.definition.items
    IN  [i \in DOMAIN d |->
            EvaluateCode(d[i], IterationContexts(Top, ctxs),
                         IterationContext(Top, ctxs))]
Guarded == AtItem /\ Top.task.when # None /\ Top.task.when.definition.k = "list"
AllTruthy ==
    \A i \in DOMAIN Conditions : ~IsErr(Conditions[i]) /\ Truthy(Conditions[i])
SomeFalsy ==
    \E i \in DOMAIN Conditions :
        /\ ~IsErr(Conditions[i]) /\ ~Truthy(Conditions[i])
        /\ \A j \in 1..(i - 1) : ~IsErr(Conditions[j])

C2_Step ==
    /\ Guarded /\ AllTruthy =>
          /\ Len(trace') = Len(trace) + 1
          /\ Last(trace').path = Top.path /\ Last(trace').n = Top.i + 1
          /\ Last(trace').phase \notin {"skipped", "condition failed"}
    /\ Guarded /\ SomeFalsy =>
          /\ Last(trace').phase = "skipped"
          /\ Collects
          /\ NewResult.d.skipped = Bool(TRUE) /\ NewResult.d.failed = Bool(FALSE)
          /\ DOMAIN NewResult.d = {"succeeded", "failed", "failure", "skipped"}
          /\ SameContexts
    /\ AtReturn =>
          \A k \in DOMAIN ctxs :
             \A n \in DOMAIN ctxs[k] \cup DOMAIN ctxs'[k] :
                \/ /\ k = Top.c /\ Top.task.register # None
                   /\ n = TextOf(Top.task.register)
                \/ /\ n \in DOMAIN ctxs[k] /\ n \in DOMAIN ctxs'[k]
                   /\ ctxs'[k][n] = ctxs[k][n]

C2_WhenGuard == [][C2_Step]_vars

\* A looped task with a guard ran its body for its first item and skipped
\* the second one.
C2_Witness ==
    /\ AtReturn /\ Top.task.when # None /\ Len(Top.results) = 2
    /\ Top.results[1].d.skipped = Bool(FALSE)
    /\ Top.results[2].d.skipped = Bool(TRUE)
    /\ Len(trace) >= 2
    /\ trace[Len(trace) - 1].phase = "ok" /\ Last(trace).phase = "skipped"

(***************************************************************************)
(* C3.  When the body of a task (validate or execute, or the children of   *)
(* a block) raises an exception: with ignore_errors the exception does     *)
(* not propagate, the outcome is a Result with failed = true, succeeded =  *)
(* false, skipped = false and failure = "<class>: <message>", and the      *)
(* caller goes on with the next item or task; without ignore_errors the    *)
(* exception leaves the task as ExecutionFailed.                           *)
(***************************************************************************)
Handled(e) ==
    IF Top.task.ignore_errors
    THEN /\ Collects
         /\ NewResult.d.failed = Bool(TRUE)
         /\ NewResult.d.succeeded = Bool(FALSE)
         /\ NewResult.d.skipped = Bool(FALSE)
         /\ NewResult.d.failure = Message(<<e.cls, ": ">> \o e.msg)
    ELSE /\ exc'.k = "err" /\ exc'.cls = "ExecutionFailed"
         /\ stack' = Pop(stack)

C3_Step ==
    /\ AtItem /\ Last(trace').phase \in {"validate failed", "exc"}
          => Handled(Last(trace').error)
    /\ pc = "run" /\ exc # NoExc /\ exc.k = "err" /\ Top.f = "call"
          => Handled(exc)

C3_IgnoreErrors == [][C3_Step]_vars

\* The first task failed, its error was ignored and registered, and the
\* second task was run.
C3_Witness ==
    /\ pc = "run" /\ Len(trace) >= 2
    /\ trace[1].path = <<1>> /\ trace[1].phase = "exc"
    /\ trace[1].task.ignore_errors /\ ~trace[1].task.kind = "block"
    /\ "r" \in DOMAIN ctxs[1] /\ ctxs[1].r.k = "result"
    /\ ctxs[1].r.d.failed = Bool(TRUE)
    /\ Last(trace).path = <<2>>

(***************************************************************************)
(* C4.  When the body of a `return` executes, anywhere in the script, no   *)
(* task, sibling or loop iteration is run after it and the execution       *)
(* returns the value it carries; when no `return` executes and nothing     *)
(* fails, the execution returns None.                                      *)
(*                                                                         *)
(* C4_ReturnAnywhere states this for every value; C4_ReturnDefined is the  *)
(* statement the program meets: a value that is undefined, or that cannot  *)
(* be materialised, makes the execution raise ExecutionFailed.             *)
(***************************************************************************)
Returned(v) == outcome = [st |-> "returned", v |-> v]
Fails(v) == IsErr(materialize(v, ctxs)) \/ materialize(v, ctxs) = Undefined
NoReturn ==
    /\ (\A i \in DOMAIN trace : trace[i].phase # "finish")
          /\ outcome.st = "returned" => outcome.v = None
    /\ (/\ \A i \in DOMAIN trace : trace[i].phase \in {"skipped", "block", "ok"}
        /\ \A j \in DOMAIN tasks : ~IsErr(TaskCall(tasks[j], <<j>>, 1, ctxs)))
          => Returned(None)

C4_ReturnAnywhere ==
    pc = "done" /\ tasks # <<>> =>
       /\ \A i \in DOMAIN trace :
             trace[i].phase = "finish" =>
                /\ i = Len(trace)
                /\ Returned(materialize(trace[i].arg, ctxs))
       /\ NoReturn

C4_ReturnDefined ==
    pc = "done" /\ tasks # <<>> =>
       /\ \A i \in DOMAIN trace :
             trace[i].phase = "finish" =>
                /\ i = Len(trace)
                /\ IF Fails(trace[i].arg)
                   THEN /\ outcome.st = "raised"
                        /\ outcome.e.cls = "ExecutionFailed"
                   ELSE Returned(materialize(trace[i].arg, ctxs))
       /\ NoReturn

\* The first child of a looped block returned in the first iteration: the
\* second child, the later iterations and the later tasks were not run.
C4_Witness ==
    /\ pc = "done" /\ Returned(Num(1)) /\ Len(tasks) >= 2
    /\ Len(trace) = 2
    /\ trace[1].phase = "block" /\ trace[1].task.loop # None
    /\ trace[2].path = <<1, 1>> /\ trace[2].phase = "finish"

(***************************************************************************)
(* C5.  A `fail: msg` whose body executes without ignore_errors makes the  *)
(* execution raise an error whose message contains msg, and no task runs   *)
(* after it; with ignore_errors the execution goes on, and the Result it   *)
(* registers has failed = true and a failure that contains msg.            *)
(*                                                                         *)
(* C5_FailHalts states this for every `fail`; C5_FailHaltsUnshielded is    *)
(* the statement the program meets: it excepts the `fail` inside a block   *)
(* whose task, or a task around it, has ignore_errors.                     *)
(***************************************************************************)
IsFail(e) == e.task.kind = "fail" /\ Class("fail") = "Fail" /\ e.phase = "exc"
Msg(e) == TextOf(e.task.params.m.msg)
Halted(i) ==
    /\ i = Len(trace)
    /\ pc = "run" => exc # NoExc /\ exc.k = "err" /\ Msg(trace[i]) \in Tokens(exc.msg)
    /\ pc = "done" => /\ outcome.st = "raised"
                      /\ Msg(trace[i]) \in Tokens(outcome.e.msg)
Ignored(i) ==
    /\ pc = "run" /\ i = Len(trace) => exc = NoExc
    /\ (/\ trace[i].path = <<1>> /\ trace[i].task.loop = None
        /\ trace[i].task.register # None
        /\ pc = "run" => stack[1].i >= 1)
          => LET res == ctxs[1][TextOf(trace[i].task.register)]
             IN  /\ res.k = "result" /\ res.d.failed = Bool(TRUE)
                 /\ Msg(trace[i]) \in Tokens(res.d.failure.t)
    /\ (/\ trace[i].path = <<1>> /\ trace[i].task.loop = None
        /\ pc = "done" /\ Len(tasks) >= 2)
          => \E j \in DOMAIN trace : trace[j].path = <<2>>

C5_FailHalts ==
    \A i \in DOMAIN trace :
       IsFail(trace[i]) =>
          IF trace[i].task.ignore_errors THEN Ignored(i) ELSE Halted(i)

C5_FailHaltsUnshielded ==
    \A i \in DOMAIN trace :
       IsFail(trace[i]) =>
          IF trace[i].task.ignore_errors THEN Ignored(i)
          ELSE ~trace[i].shielded => Halted(i)

\* The first task failed, was ignored and registered its Result; a later
\* `fail` without ignore_errors ended the execution.
C5_Witness ==
    /\ pc = "done" /\ outcome.st = "raised"
    /\ "late" \in Tokens(outcome.e.msg)
    /\ IsFail(trace[1]) /\ trace[1].task.ignore_errors
    /\ "r" \in DOMAIN ctxs[1] /\ ctxs[1].r.k = "result"
    /\ "boom" \in Tokens(ctxs[1].r.d.failure.t)
    /\ IsFail(Last(trace)) /\ ~Last(trace).task.ignore_errors

(***************************************************************************)
(* C6.  A task with `register: v` that completes writes one value to the   *)
(* variable v of the context it was called with: its Result when it has    *)
(* no loop, the mapping {"results": [...]} of all its Results when it has  *)
(* one; and that value is what the tasks after it read under v.            *)
(***************************************************************************)
Registered ==
    IF Top.looped
    THEN [k |-> "map", o |-> <<"results">>,
          m |-> [results |-> [k |-> "list", items |-> Top.results]]]
    ELSE Top.results[1]

C6_Step ==
    AtReturn /\ Top.task.register # None =>
       /\ Len(ctxs') = Len(ctxs)
       /\ ctxs'[Top.c][TextOf(Top.task.register)] = Registered
       /\ ~Top.looped => Registered.k = "result"
       /\ \A k \in DOMAIN ctxs :
             \A n \in (DOMAIN ctxs[k] \cup DOMAIN ctxs'[k]) :
                (k # Top.c \/ n # TextOf(Top.task.register))
                   => /\ n \in DOMAIN ctxs[k] /\ n \in DOMAIN ctxs'[k]
                      /\ ctxs'[k][n] = ctxs[k][n]

\* What a template that names a variable of value v evaluates to: a mapping
\* is read as a Namespace over it.
ReadAs(v) ==
    IF v.k = "map" THEN [k |-> "ns", o |-> v.o, m |-> v.m, c |-> 1] ELSE v

\* The tasks after the first one that pass "{{ r }}" to their spy
Reads(e) ==
    /\ e.task.kind = "test" /\ e.phase = "ok"
    /\ Len(e.path) = 1 /\ e.path[1] >= 2
    /\ e.task.params.m.object = Tmpl(Var("r"))

C6_Read ==
    \A i \in DOMAIN trace :
       Reads(trace[i]) =>
          trace[i].arg = IF "r" \in DOMAIN ctxs[1] THEN ReadAs(ctxs[1].r)
                         ELSE Undefined

C6_Register == [](C6_Read) /\ [][C6_Step]_vars

\* A looped first task registered its results under r, and the second task
\* read them.
C6_Witness ==
    /\ Len(trace) >= 3 /\ Reads(Last(trace))
    /\ trace[1].path = <<1>> /\ trace[1].task.loop # None
    /\ trace[1].task.register # None
    /\ ctxs[1].r.k = "map" /\ ctxs[1].r.o = <<"results">>
    /\ Len(ctxs[1].r.m.results.items) >= 2
    /\ Last(trace).arg.k = "ns" /\ Last(trace).arg.m = ctxs[1].r.m

(***************************************************************************)
(* C7.  A looped task whose loop resolves to the items i1..in: the         *)
(* condition is evaluated for each item with `item` bound to it, the body  *)
(* is called for the items whose condition passes, in the order of the     *)
(* items, and the registered list has n entries, entry k being the Result  *)
(* of item k: skipped for an item the condition filtered, failed for an    *)
(* item whose body failed under ignore_errors, after which the later       *)
(* items are still processed.                                              *)
(***************************************************************************)
\* The conditions of the task on top, evaluated in a copy of the context of
\* the call in which `item` is the next item.
ItemConditions ==
    LET d == Top.task.when.definition.items
        cs == Append(ctxs, ("item" :> Top.items[Top.i + 1]) @@ ctxs[Top.c])
    IN  [i \in DOMAIN d |-> EvaluateCode(d[i], cs, Len(cs))]
ItemPasses ==
    \A i \in DOMAIN ItemConditions :
       ~IsErr(ItemConditions[i]) /\ Truthy(ItemConditions[i])
ItemFiltered ==
    \E i \in DOMAIN ItemConditions :
       /\ ~IsErr(ItemConditions[i]) /\ ~Truthy(ItemConditions[i])
       /\ \A j \in 1..(i - 1) : ~IsErr(ItemConditions[j])

C7_Step ==
    /\ AtItem /\ Top.looped =>
          /\ Last(trace').path = Top.path /\ Last(trace').n = Top.i + 1
          /\ Len(ctxs') = Len(ctxs) + 1
          /\ Last(ctxs').item = Top.items[Top.i + 1]
          /\ (Top.task.when # None /\ Top.task.when.definition.k = "list") =>
                /\ ItemPasses => Last(trace').phase \notin {"skipped", "condition failed"}
                /\ ItemFiltered => Last(trace').phase = "skipped"
          /\ Last(trace').phase = "skipped" =>
                /\ Collects
                /\ NewResult.d.skipped = Bool(TRUE)
          /\ (Last(trace').phase \in {"validate failed", "exc"}
                /\ Top.task.ignore_errors) =>
                /\ Collects
                /\ NewResult.d.failed = Bool(TRUE)
                /\ NewResult.d.skipped = Bool(FALSE)
          /\ Last(trace').phase = "ok" =>
                /\ Collects
                /\ NewResult.d.succeeded = Bool(TRUE)
                /\ NewResult.d.skipped = Bool(FALSE)
                /\ (/\ Top.task.kind = "test"
                    /\ Top.task.params.k = "map"
                    /\ Top.task.params.m.object = Tmpl(Var("item")))
                      => /\ Last(trace').arg = Top.items[Top.i + 1]
                         /\ NewResult.d.result = Top.items[Top.i + 1]
    /\ AtReturn /\ Top.looped /\ Top.task.register # None =>
          LET v == ctxs'[Top.c][TextOf(Top.task.register)]
          IN  /\ v.m.results.items = Top.results
              /\ Len(v.m.results.items) = Len(Top.items)

C7_Frames ==
    \A s \in DOMAIN stack :
       stack[s].f = "call" =>
          /\ Len(stack[s].results) = stack[s].i
          /\ stack[s].i <= Len(stack[s].items)
          /\ stack[s].looped =>
                stack[s].items = TaskCall(stack[s].task, stack[s].path,
                                          stack[s].c, ctxs).items

C7_Loop == [](C7_Frames) /\ [][C7_Step]_vars

\* A looped task with ignore_errors and a condition registered the Results
\* of its items: the body failed for the first, the second was filtered.
C7_Witness ==
    /\ "r" \in DOMAIN ctxs[1] /\ ctxs[1].r.k = "map"
    /\ Len(ctxs[1].r.m.results.items) = 2
    /\ ctxs[1].r.m.results.items[1].d.failed = Bool(TRUE)
    /\ ctxs[1].r.m.results.items[2].d.skipped = Bool(TRUE)
    /\ Len(trace) >= 2
    /\ trace[1].phase = "exc" /\ trace[1].n = 1
    /\ trace[2].phase = "skipped" /\ trace[2].n = 2

(***************************************************************************)
(* C8.  Each iteration of a loop runs against its own copy of the context  *)
(* with `item` bound: what an iteration writes (by `vars`, or by the       *)
(* `register` of a task of a looped block) is seen neither by the later    *)
(* iterations nor by the context of the call; the `item` of that context,  *)
(* or its absence, is after the loop what it was before; and the only key  *)
(* of that context the looped task changes is its own `register`.          *)
(***************************************************************************)
\* The keys the body of the task on top writes to the context it runs in.
Written == IF Top.task.kind = "vars" THEN DOMAIN Top.task.params.m ELSE {}

C8_Step ==
    \* an iteration starts from a copy of the context of the call
    /\ AtItem /\ Top.looped =>
          /\ SameContexts
          /\ Len(ctxs') = Len(ctxs) + 1
          /\ Last(ctxs').item = Top.items[Top.i + 1]
          /\ \A n \in DOMAIN Last(ctxs') \ ({"item"} \cup Written) :
                n \in DOMAIN ctxs[Top.c] /\ Last(ctxs')[n] = ctxs[Top.c][n]
          /\ \A n \in DOMAIN ctxs[Top.c] : n \in DOMAIN Last(ctxs')
    \* while the loop runs, nothing writes to the context of the call
    /\ \A s \in DOMAIN stack :
          (/\ stack[s].f = "call" /\ stack[s].looped
           /\ ~(s = Len(stack) /\ AtReturn))
             => ctxs'[stack[s].c] = ctxs[stack[s].c]
    \* when it ends, the only key written is the register of the task
    /\ AtReturn /\ Top.looped =>
          \A n \in DOMAIN ctxs[Top.c] \cup DOMAIN ctxs'[Top.c] :
             (Top.task.register = None \/ n # TextOf(Top.task.register))
                => /\ n \in DOMAIN ctxs[Top.c] /\ n \in DOMAIN ctxs'[Top.c]
                   /\ ctxs'[Top.c][n] = ctxs[Top.c][n]
    \* the `item` of a context is never rebound
    /\ ~NewCall =>
          \A k \in DOMAIN ctxs :
             /\ ("item" \in DOMAIN ctxs[k]) = ("item" \in DOMAIN ctxs'[k])
             /\ "item" \in DOMAIN ctxs[k] => ctxs'[k].item = ctxs[k].item

\* The first child of a looped first task passes "{{ x }}" to its spy
ReadsX(e) ==
    /\ e.task.kind = "test" /\ e.phase = "ok" /\ e.path = <<1, 1>>
    /\ e.task.params.m.object = Tmpl(Var("x"))

C8_Isolated ==
    (trace # <<>> /\ trace[1].task.loop # None) =>
       /\ "x" \notin DOMAIN ctxs[1]
       /\ \A i \in DOMAIN trace : ReadsX(trace[i]) => trace[i].arg = Undefined

C8_LoopIsolation == [](C8_Isolated) /\ [][C8_Step]_vars

\* Both iterations of a looped block read x, then set it: the second one
\* did not see what the first one wrote, and neither does the context of
\* the execution.
C8_Witness ==
    /\ pc = "done" /\ Len(trace) >= 6
    /\ trace[1].phase = "block" /\ trace[1].task.loop # None
    /\ ReadsX(trace[2]) /\ trace[3].task.kind = "vars" /\ trace[3].phase = "ok"
    /\ ReadsX(trace[5]) /\ trace[5].arg = Undefined
    /\ trace[6].task.kind = "vars" /\ trace[6].phase = "ok"
    /\ "x" \notin DOMAIN ctxs[1]
    /\ \E k \in DOMAIN ctxs : "x" \in DOMAIN ctxs[k] /\ ctxs[k].x = Num(1)

(***************************************************************************)
(* C9.  A failure of the evaluation of the `when` of a task is not         *)
(* recoverable: with or without ignore_errors the task raises              *)
(* ExecutionFailed ("Failed to evaluate condition ..."), its body is not   *)
(* executed, it has no Result, nothing is registered for it, and the       *)
(* script stops.                                                           *)
(*                                                                         *)
(* C9_ConditionStops states this for every task;                           *)
(* C9_ConditionStopsUnshielded is the statement the program meets: it      *)
(* excepts the task inside a block whose task, or a task around it, has    *)
(* ignore_errors.                                                          *)
(***************************************************************************)
ConditionFailed(e) == e.phase = "condition failed"
IsConditionError(e) ==
    /\ e.k = "err" /\ e.cls = "ExecutionFailed"
    /\ "Failed to evaluate condition for " \in Tokens(e.msg)

\* The task raised: the call on top of the stack is gone, and no Result.
C9_Step ==
    AtItem /\ ConditionFailed(Last(trace')) =>
       /\ stack' = Pop(stack)
       /\ IsConditionError(exc') /\ exc'.msg[1] = "Failed to evaluate condition for "
       /\ SameContexts

Stopped(i) ==
    /\ i = Len(trace)
    /\ pc = "run" => IsConditionError(exc)
    /\ pc = "done" => outcome.st = "raised" /\ IsConditionError(outcome.e)
    /\ trace[i].path = <<1>> => ctxs[1] \in Contexts

C9_ConditionStops ==
    \A i \in DOMAIN trace : ConditionFailed(trace[i]) => Stopped(i)

C9_Unshielded ==
    \A i \in DOMAIN trace :
       ConditionFailed(trace[i]) /\ ~trace[i].shielded => Stopped(i)

C9_ConditionStopsUnshielded == [](C9_Unshielded) /\ [][C9_Step]_vars

\* The condition of a task that has ignore_errors failed, and the execution
\* ended with the error.
C9_Witness ==
    /\ pc = "done" /\ outcome.st = "raised" /\ IsConditionError(outcome.e)
    /\ ConditionFailed(Last(trace)) /\ Last(trace).task.ignore_errors
    /\ Last(trace).task.register # None
    /\ ~Last(trace).shielded

(***************************************************************************)
(* C10.  FinishScript is no error: raised in a task that has ignore_errors,*)
(* or in a child of a block that has ignore_errors, it is never converted  *)
(* into a failed Result and never wrapped as ExecutionFailed; it ends the  *)
(* script successfully with its value.                                     *)
(*                                                                         *)
(* C10_FinishSucceeds states this for every value; C10_FinishPasses is the *)
(* statement the program meets: the signal passes every task unchanged,    *)
(* and Script.__call__ raises ExecutionFailed when the value is undefined  *)
(* or cannot be materialised.                                              *)
(***************************************************************************)
Finished(e) == e.phase = "finish" /\ (e.task.ignore_errors \/ e.shielded)

C10_FinishSucceeds ==
    \A i \in DOMAIN trace :
       Finished(trace[i]) =>
          /\ pc = "run" => exc = FinishScript(trace[i].arg)
          /\ pc = "done" => Returned(materialize(trace[i].arg, ctxs))

C10_FinishPasses ==
    \A i \in DOMAIN trace :
       Finished(trace[i]) =>
          /\ pc = "run" => exc = FinishScript(trace[i].arg)
          /\ pc = "run" =>
                \A s \in DOMAIN stack :
                   stack[s].f = "call" => Len(stack[s].results) = stack[s].i
          /\ pc = "done" =>
                IF Fails(trace[i].arg)
                THEN /\ outcome.st = "raised"
                     /\ outcome.e.cls = "ExecutionFailed"
                     /\ trace[i].arg = Undefined =>
                           outcome.e.msg = <<"Script returned undefined value">>
                ELSE Returned(materialize(trace[i].arg, ctxs))

\* A `return` that has ignore_errors, in a block that has ignore_errors,
\* ended the execution with its value.
C10_Witness ==
    /\ pc = "done" /\ Returned(Num(1))
    /\ Last(trace).phase = "finish"
    /\ Last(trace).task.ignore_errors /\ Last(trace).shielded

(***************************************************************************)
(* C11.  Whatever Script.__call__ raises is an ExecutionFailed: an         *)
(* ExecutionFailed that leaves a task is raised as it is, and any other    *)
(* exception that leaves a task, or that the materialisation of a returned *)
(* value raises, is raised as an ExecutionFailed whose message has the     *)
(* name of the task and the class of the exception.  In both cases no      *)
(* task is run afterwards.                                                 *)
(***************************************************************************)
Escapes == pc = "run" /\ pc' = "done" /\ outcome'.st = "raised"
Offending == tasks[stack[1].i + 1]

C11_Step ==
    /\ Escapes =>
          /\ exc # NoExc /\ Len(stack) = 1
          /\ outcome'.e.cls = "ExecutionFailed"
          /\ IsExecutionFailed(exc) => outcome'.e = exc
          /\ (IsErr(exc) /\ ~IsExecutionFailed(exc)) =>
                {TextOf(Offending.name), exc.cls} \subseteq Tokens(outcome'.e.msg)
          /\ (exc.k = "finish" /\ IsErr(materialize(exc.v, ctxs))) =>
                {TextOf(Offending.name), materialize(exc.v, ctxs).cls}
                   \subseteq Tokens(outcome'.e.msg)
          /\ trace' = trace
    /\ (pc = "done" /\ outcome.st = "raised") =>
          \/ pc' = "done" /\ trace' = trace /\ outcome' = outcome
          \/ NewCall

C11_OnlyExecutionFailed == [][C11_Step]_vars

\* The value of the second of three tasks, a `return`, could not be
\* materialised: the error of the script names `return` and UndefinedError,
\* and the third task was not run.
C11_Witness ==
    /\ pc = "done" /\ Len(tasks) = 3
    /\ trace # <<>> /\ Last(trace).phase = "finish" /\ Last(trace).path = <<2>>
    /\ IsErr(materialize(Last(trace).arg, ctxs))
    /\ outcome.st = "raised" /\ outcome.e.cls = "ExecutionFailed"
    /\ {"return", "UndefinedError"} \subseteq Tokens(outcome.e.msg)

(***************************************************************************)
(* C12.  A body that returns something that is neither None nor a mapping  *)
(* is fatal whatever ignore_errors says: the execution raises              *)
(* ExecutionFailed, no Result is made of it and nothing runs after it.     *)
(*                                                                         *)
(* The program raises the RuntimeError for such a value inside the try     *)
(* block of _execute_one, so that with ignore_errors the except clause     *)
(* makes a failed Result of it and the script goes on.                     *)
(***************************************************************************)
C12_WrongResultFatal ==
    \A i \in DOMAIN trace :
       trace[i].phase = "wrong result" =>
          /\ i = Len(trace)
          /\ exc # NoExc \/ pc = "done"
          /\ pc = "done" =>
                outcome.st = "raised" /\ outcome.e.cls = "ExecutionFailed"

(***************************************************************************)
(* C13.  The abort of a `fail` that is not ignored reaches the caller of   *)
(* execute with the message of the task.                                   *)
(*                                                                         *)
(* C13_AbortLiteral states that the message of the error is msg and        *)
(* nothing else.  C13_AbortPrefixed is the statement the program meets:    *)
(* the message is "Execution aborted: " and msg, without the name of the   *)
(* task and the class of the exception, for a `fail` of the top level;     *)
(* every block around the `fail` wraps that error like any other           *)
(* exception, with the name of the block and the class ExecutionFailed in  *)
(* front of the message.                                                   *)
(***************************************************************************)
Aborts(e) ==
    /\ IsFail(e) /\ e.error.cls = "Aborted"
    /\ ~e.task.ignore_errors /\ ~e.shielded
Wrapper(name) ==
    <<"Failed to execute task ", name, ". ", "ExecutionFailed", ": ">>
RECURSIVE Wrapped(_, _)
Wrapped(depth, msg) ==
    IF depth = 0 THEN msg ELSE Wrapper("block") \o Wrapped(depth - 1, msg)

C13_AbortLiteral ==
    (pc = "done" /\ trace # <<>> /\ Aborts(Last(trace))) =>
       /\ outcome.st = "raised"
       /\ outcome.e.msg = <<Msg(Last(trace))>>

C13_AbortPrefixed ==
    (pc = "done" /\ trace # <<>> /\ Aborts(Last(trace))) =>
       /\ outcome.st = "raised" /\ outcome.e.cls = "ExecutionFailed"
       /\ outcome.e.msg = Wrapped(Len(Last(trace).path) - 1,
                                  <<"Execution aborted: ", Msg(Last(trace))>>)

\* The `fail` of the top level, with two tasks after it that were not run.
C13_Witness ==
    /\ pc = "done" /\ Len(tasks) = 3 /\ Len(trace) = 1
    /\ Aborts(trace[1]) /\ trace[1].path = <<1>>
    /\ outcome.st = "raised"
    /\ outcome.e.msg = <<"Execution aborted: ", "boom">>

(***************************************************************************)
(* C14.  A definition none of whose keys is a kind is rejected with        *)
(* UnknownTask, one that has the keys of two or more kinds with            *)
(* InvalidTask, and one that has the key of exactly one kind is given to   *)
(* the constructor of that kind, whose task, if it makes one, is of that   *)
(* kind.  Every definition of the top level is resolved before the first   *)
(* task is run: when one of them is rejected, the execution ends with the  *)
(* error and no body has been executed, also not of the tasks before the   *)
(* rejected one.                                                           *)
(***************************************************************************)
TaskDefinitions ==
    IF source.k = "list" THEN source.items
    ELSE IF "tasks" \in DOMAIN source.m /\ source.m.tasks.k = "list"
    THEN source.m.tasks.items
    ELSE <<>>
Matching(defn) == DOMAIN defn.m \cap DOMAIN engine.tasks
Resolved(j) == _load_task(TaskDefinitions[j], ctxs)

C14_Kind(j) ==
    LET matching == Matching(TaskDefinitions[j])
        r == Resolved(j)
    IN  /\ matching = {} => IsErr(r) /\ r.cls = "UnknownTask"
        /\ Cardinality(matching) >= 2 => IsErr(r) /\ r.cls = "InvalidTask"
        /\ Cardinality(matching) = 1 =>
              /\ r = TaskInit(CHOOSE n \in matching : TRUE,
                              TaskDefinitions[j], ctxs)
              /\ r.k = "task" => r.kind \in matching
              /\ IsErr(r) => r.cls = "InvalidTask"

\* The states in which no task has acted yet: the script is not loaded,
\* is loaded, was refused, or is called again.
Loading == trace = <<>>

C14_Resolution ==
    Loading =>
    /\ \A j \in DOMAIN TaskDefinitions : C14_Kind(j)
    /\ pc = "run" =>
          /\ DOMAIN tasks = DOMAIN TaskDefinitions
          /\ \A j \in DOMAIN tasks : tasks[j].k = "task" /\ tasks[j] = Resolved(j)
    /\ (\E j \in DOMAIN TaskDefinitions : IsErr(Resolved(j))) =>
          /\ pc # "run" /\ trace = <<>> /\ Len(ctxs) = 1
          /\ pc = "done" =>
                /\ outcome.st = "raised"
                /\ outcome.e.cls \in {"UnknownTask", "InvalidTask", "InvalidScript"}
                /\ outcome.e.cls # "InvalidScript" =>
                      outcome.e = FirstErr([j \in DOMAIN TaskDefinitions |->
                                               Resolved(j)])

\* The second definition is of no kind: UnknownTask was raised, and the
\* `vars` before it was not run.
C14_Witness ==
    /\ pc = "done" /\ Len(TaskDefinitions) = 2
    /\ Resolved(1).k = "task" /\ Resolved(1).kind = "vars"
    /\ Matching(TaskDefinitions[2]) = {}
    /\ outcome.st = "raised" /\ outcome.e.cls = "UnknownTask"
    /\ trace = <<>> /\ "x" \notin DOMAIN ctxs[1]

(***************************************************************************)
(* C15.  execute raises InvalidScript for a source that has no `tasks`,    *)
(* whose `tasks` is empty or is not a list, or that has a key other than   *)
(* `tasks`; and whenever InvalidScript is raised no task has been run and  *)
(* the context of the caller is as it was given.                           *)
(***************************************************************************)
AsMapping == IF source.k = "list" THEN Dict(<<"tasks">>, [tasks |-> source])
             ELSE source
Misformed ==
    \/ "tasks" \notin DOMAIN AsMapping.m
    \/ AsMapping.m.tasks.k # "list"
    \/ AsMapping.m.tasks.items = <<>>
    \/ DOMAIN AsMapping.m # {"tasks"}

C15_Step ==
    (pc = "new" /\ Misformed) =>
       /\ pc' = "done"
       /\ outcome'.st = "raised" /\ outcome'.e.cls = "InvalidScript"
       /\ trace' = <<>> /\ ctxs' = ctxs /\ stack' = <<>>

C15_Untouched ==
    (outcome.st = "raised" /\ outcome.e.cls = "InvalidScript") =>
       /\ pc = "done" /\ trace = <<>>
       /\ Len(ctxs) = 1 /\ ctxs[1] \in Contexts

C15_InvalidScript == [](C15_Untouched) /\ [][C15_Step]_vars

\* A source whose tasks can be loaded and run, with the key `foo` beside
\* `tasks`.
C15_Witness ==
    /\ pc = "done" /\ source.k = "map"
    /\ DOMAIN source.m = {"tasks", "foo"}
    /\ source.m.tasks = List(<<SetX, ReturnX>>)
    /\ outcome.st = "raised" /\ outcome.e.cls = "InvalidScript"
    /\ trace = <<>> /\ "x" \notin DOMAIN ctxs[1]

(***************************************************************************)
(* C16.  The errors of the shape of the parameters: a required parameter   *)
(* that is missing, a parameter that is not known, a value that the cast   *)
(* rejects, no parameter where one is needed.                              *)
(*                                                                         *)
(* C16_ShapeFatalAtLoad states that a script with such a task is rejected  *)
(* with InvalidTask when it is loaded, before anything is run.             *)
(* C16_ShapeAtExecution is the statement the program meets: Task.validate  *)
(* is called by _execute_one, after the condition of the task passed, so   *)
(* that the script is loaded, the tasks before the misshapen one are run,  *)
(* and the InvalidTask is handled like an exception of the body: with      *)
(* ignore_errors it becomes a failed Result, without it the task raises    *)
(* ExecutionFailed, whose message has the name of the task and the class   *)
(* InvalidTask.  The body of the task is not executed.                     *)
(***************************************************************************)
\* What validate of the task makes of its parameters, in context c of cs.
Shape(task, cs, c) ==
    IF task.kind = "block" \/ IsErr(NewParams(task, cs, c)) THEN NoErr
    ELSE validate(task.kind, NewParams(task, cs, c), cs)

\* The error that validate raises in the step from this state, or NoErr.
ShapeError ==
    IF AtItem /\ Condition(Top.task, IterationContexts(Top, ctxs),
                           IterationContext(Top, ctxs)) = Bool(TRUE)
    THEN Shape(Top.task, IterationContexts(Top, ctxs),
               IterationContext(Top, ctxs))
    ELSE NoErr

ValidateMessages ==
    { "parameter(s) not recognized: ", "parameter(s) required: ",
      "at least one of ",
      "invalid value for parameter " }

C16_Step ==
    IsErr(ShapeError) =>
       /\ ShapeError.cls = "InvalidTask"
       /\ ShapeError.msg[1] \in ValidateMessages
       /\ Last(trace').phase = "validate failed"
       /\ Last(trace').error = ShapeError
       /\ SameContexts
       /\ IF Top.task.ignore_errors
          THEN /\ Collects
               /\ NewResult.d.failed = Bool(TRUE)
               /\ NewResult.d.failure = Message(<<"InvalidTask", ": ">>
                                                \o ShapeError.msg)
          ELSE /\ stack' = Pop(stack)
               /\ exc'.k = "err" /\ exc'.cls = "ExecutionFailed"
               /\ {TextOf(Top.task.name), "InvalidTask"} \subseteq Tokens(exc'.msg)

\* An InvalidTask that execute raises comes from the loading of the tasks,
\* never from validate.
C16_NotAtLoad ==
    (pc = "done" /\ outcome.st = "raised" /\ outcome.e.cls = "InvalidTask") =>
       /\ trace = <<>>
       /\ outcome.e.msg[1] \notin ValidateMessages

BadChild(j) ==
    /\ Resolved(j).k = "task" /\ Resolved(j).kind = "block"
    /\ "tasks" \in DOMAIN Resolved(j).params.m
    /\ Resolved(j).params.m.tasks.k = "list"
    /\ \E i \in DOMAIN Resolved(j).params.m.tasks.items :
          IsErr(_load_task(Resolved(j).params.m.tasks.items[i], ctxs))

C17_ChildrenAtLoad ==
    \A j \in DOMAIN TaskDefinitions :
       BadChild(j) =>
          /\ pc # "run" /\ trace = <<>>
          /\ pc = "done" =>
                /\ outcome.st = "raised"
                /\ outcome.e.cls \in {"UnknownTask", "InvalidTask"}

AtBlock == AtItem /\ Top.task.kind = "block"
BlockCondition ==
    Condition(Top.task, IterationContexts(Top, ctxs), IterationContext(Top, ctxs))
\* The error that Block.validate raises in the step from this state, or
\* NoErr.
BlockError ==
    IF AtBlock /\ BlockCondition = Bool(TRUE)
              /\ ~IsErr(NewParams(Top.task, IterationContexts(Top, ctxs),
                                  IterationContext(Top, ctxs)))
    THEN LET r == BlockValidate(NewParams(Top.task, IterationContexts(Top, ctxs),
                                          IterationContext(Top, ctxs)),
                                IterationContexts(Top, ctxs))
         IN  IF IsErr(r) THEN r ELSE NoErr
    ELSE NoErr

C17_Step ==
    /\ IsErr(BlockError) =>
          /\ Last(trace').phase = "validate failed"
          /\ Last(trace').error = BlockError
          /\ SameContexts
          /\ IF Top.task.ignore_errors
             THEN /\ Collects
                  /\ NewResult.d.failed = Bool(TRUE)
                  /\ NewResult.d.failure = Message(<<BlockError.cls, ": ">>
                                                   \o BlockError.msg)
             ELSE /\ stack' = Pop(stack)
                  /\ exc'.k = "err" /\ exc'.cls = "ExecutionFailed"
                  /\ {TextOf(Top.task.name), BlockError.cls}
                        \subseteq Tokens(exc'.msg)
    /\ (AtBlock /\ BlockCondition = Bool(FALSE)) =>
          /\ Collects /\ NewResult.d.skipped = Bool(TRUE)
          /\ Last(trace').phase = "skipped"
          /\ SameContexts

\* An UnknownTask or InvalidTask that execute raises comes from a
\* definition of the top level.
C17_TopLevelOnly ==
    (pc = "done" /\ outcome.st = "raised"
                 /\ outcome.e.cls \in {"UnknownTask", "InvalidTask"}) =>
       /\ trace = <<>>
       /\ \E j \in DOMAIN TaskDefinitions : Resolved(j) = outcome.e

C17_ChildrenAtValidate == [](C17_TopLevelOnly) /\ [][C17_Step]_vars

\* The second task is a block whose second child is of no kind: the first
\* task was run, no child was, and the block failed with the UnknownTask.
C17_Witness ==
    /\ pc = "done" /\ Len(tasks) = 3 /\ BadChild(2)
    /\ Len(trace) = 2 /\ trace[1].phase = "ok"
    /\ trace[2].phase = "validate failed" /\ trace[2].path = <<2>>
    /\ trace[2].error.cls = "UnknownTask"
    /\ outcome.st = "raised" /\ outcome.e.cls = "ExecutionFailed"
    /\ {"block", "UnknownTask"} \subseteq Tokens(outcome.e.msg)

(***************************************************************************)
(* C18.  A block calls its children in the order of its list, one after    *)
(* the other and all of them unless an exception leaves one, with the      *)
(* context its own body runs in.  What a child writes by `vars` or         *)
(* `register` is read by the later children, and, when no block around     *)
(* the child is looped, it is written to the context of the execution,     *)
(* where the tasks after the block read it.                                *)
(***************************************************************************)
\* The frames of a block, of its task and of the child it has called.
C18_Frames ==
    \A s \in DOMAIN stack :
       stack[s].f = "block" =>
          /\ s > 1 /\ stack[s - 1].f = "call"
          /\ stack[s - 1].task.kind = "block"
          /\ stack[s].path = stack[s - 1].path
          /\ stack[s].c = IF stack[s - 1].looped THEN stack[s].c
                          ELSE stack[s - 1].c
          /\ stack[s - 1].looped =>
                /\ stack[s].c > stack[s - 1].c
                /\ ctxs[stack[s].c].item = stack[s - 1].items[stack[s - 1].i + 1]
          /\ stack[s].i <= Len(stack[s].tasks)
          /\ s < Len(stack) =>
                /\ stack[s + 1].f = "call"
                /\ stack[s].i < Len(stack[s].tasks)
                /\ stack[s + 1].task = stack[s].tasks[stack[s].i + 1]
                /\ stack[s + 1].path = Append(stack[s].path, stack[s].i + 1)
                /\ stack[s + 1].c = stack[s].c

\* The context of a frame that is in no loop is the one of the execution.
C18_Execution ==
    \A s \in DOMAIN stack :
       (s > 1 /\ \A t \in 2..(s - 1) : stack[t].f = "call" => ~stack[t].looped)
          => stack[s].c = 1

C18_Step ==
    \* the children are called one after the other, from the first one on
    /\ \A s \in DOMAIN stack :
          (stack[s].f = "block" /\ s \in DOMAIN stack' /\ stack'[s].f = "block"
                                /\ pc' = "run") =>
             stack'[s].i \in {stack[s].i, stack[s].i + 1}
    /\ (pc = "run" /\ Top.f = "call" /\ Top.task.kind = "block"
          /\ Len(stack') = Len(stack) + 1) => Top'.f = "block" /\ Top'.i = 0
    \* the block returns after its last child
    /\ (pc = "run" /\ exc = NoExc /\ Top.f = "block"
          /\ Len(stack') < Len(stack)) => Top.i = Len(Top.tasks)
    \* what a child registers is written to the context of the block
    /\ (AtReturn /\ Len(stack) > 2 /\ Top.task.register # None) =>
          /\ stack[Len(stack) - 1].f = "block"
          /\ ctxs'[stack[Len(stack) - 1].c][TextOf(Top.task.register)] = Registered

\* A child of the first task, a block without loop, that sets x
SetsX(e) ==
    /\ e.task.kind = "vars" /\ e.phase = "ok"
    /\ Len(e.path) = 2 /\ e.path[1] = 1
    /\ DOMAIN e.task.params.m = {"x"}
    /\ e.task.params.m.x.k \in {"int", "list"}
\* A later child, or a later task, that reads x in a parameter or in its
\* loop
SeesX(e) ==
    /\ \/ Len(e.path) = 2 /\ e.path[1] = 1
       \/ Len(e.path) = 1 /\ e.path[1] > 1
    /\ \/ /\ e.task.kind = "test" /\ e.phase = "ok"
          /\ e.task.params.m.object = Tmpl(Var("x"))
       \/ /\ e.task.kind = "return" /\ e.phase = "finish"
          /\ e.task.params.m.result = Tmpl(Var("x"))

C18_Visible ==
    (trace # <<>> /\ trace[1].task.kind = "block" /\ trace[1].task.loop = None) =>
       \A i, j \in DOMAIN trace :
          (i < j /\ SetsX(trace[i]) /\ SeesX(trace[j])) =>
             /\ trace[j].arg = trace[i].task.params.m.x
             /\ "x" \in DOMAIN ctxs[1] /\ ctxs[1].x = trace[i].task.params.m.x

C19_Source(w, d, nested) ==
    IF nested THEN List(<<BlockOf(<<w, d>>, Absent, Absent), SeeR>>)
    ELSE List(<<w, d, SeeR>>)
C19_Path(nested) == IF nested THEN <<1, 2>> ELSE <<2>>

\* The writers, with the value they bind x to
C19_Writers ==
    { <<SetX, Num(1)>>, <<SetXs, List(<<Num(1), Num(2)>>)>> }

\* The readers that return, with the value execute returns when x is v
C19_Returning(v) ==
    { <<Plain(<<"return", Tmpl(Var("x"))>>), v>>,
      <<Plain(<<"return", DictOf(<< <<"result", Tmpl(Var("x"))>> >>)>>), v>>,
      <<Plain(<<"return", List(<<Tmpl(Var("x"))>>)>>), List(<<v>>)>>,
      <<Definition(<<"return", Tmpl(Var("item"))>>,
                   Absent, Absent, Absent, List(<<Num(2), Num(1)>>)), Num(2)>> }

\* The looped readers, with the items their body works on when x is v
C19_Looping(v) ==
    { <<Definition(<<"test", DictOf(<< <<"object", Tmpl(Var("item"))>> >>)>>,
                   Absent, Absent, Name("r"), List(<<Tmpl(Var("x")), Num(2)>>)),
        <<v, Num(2)>> >> }
    \cup
    IF v.k # "list" THEN {}
    ELSE { <<Definition(<<"test", DictOf(<< <<"object", Tmpl(Var("item"))>> >>)>>,
                        Absent, Absent, Name("r"), Tmpl(Var("x"))),
             v.items>> }

\* What the bodies of the task at path worked on, in order
C19_Args(path) ==
    LET evs == SelectSeq(trace, LAMBDA e : e.path = path /\ e.phase = "ok")
    IN  [i \in DOMAIN evs |-> evs[i].arg]

C19_LazyIn(nested) ==
    pc = "done" =>
       \A w \in C19_Writers :
          /\ \A d \in C19_Returning(w[2]) :
                source = C19_Source(w[1], d[1], nested) => Returned(d[2])
          /\ \A d \in C19_Looping(w[2]) :
                source = C19_Source(w[1], d[1], nested) =>
                   C19_Args(C19_Path(nested)) = d[2]

C19_Lazy == C19_LazyIn(FALSE) /\ C19_LazyIn(TRUE)

\* For the tasks of the script the templates are evaluated at execution.
C19_LazyTopLevel == C19_LazyIn(FALSE)

(***************************************************************************)
(* C20.  When the body of a `vars` task has executed, the context it ran   *)
(* against binds every key of the payload to what the value of that key    *)
(* evaluated to (the keys are assigned in order, so a value is evaluated   *)
(* with the earlier keys already bound), every other key of that context   *)
(* and every other context are as they were, and a later task that reads   *)
(* "{{ a + b }}" gets the sum of what a and b were bound to: 3 after       *)
(* vars {a: 1, b: 2}.                                                      *)
(***************************************************************************)
\* The body of the `vars` task on top of the stack executes in this step.
C20_VarsExecuted ==
    /\ AtItem /\ Top.task.kind = "vars"
    /\ Len(trace') = Len(trace) + 1
    /\ Last(trace').phase = "ok"

\* The context of the iteration as the body found it
C20_Found == IterationContexts(Top, ctxs)[IterationContext(Top, ctxs)]

\* The context in which the value of the i-th key is evaluated: the earlier
\* keys have the values they end with.
C20_Before(i) ==
    LET o == Top.task.params.o
        c == IterationContext(Top, ctxs)
        earlier == {o[j] : j \in 1..(i - 1)}
    IN  [n \in DOMAIN C20_Found \cup earlier |->
            IF n \in earlier THEN ctxs'[c][n] ELSE C20_Found[n]]

C20_Step ==
    C20_VarsExecuted =>
       LET o == Top.task.params.o
           c == IterationContext(Top, ctxs)
           keys == {o[i] : i \in DOMAIN o}
       IN  /\ keys = DOMAIN Top.task.params.m
           /\ Len(ctxs') = IF Top.looped THEN Len(ctxs) + 1 ELSE Len(ctxs)
           /\ \A i \in DOMAIN o :
                 /\ o[i] \in DOMAIN ctxs'[c]
                 /\ ctxs'[c][o[i]] =
                       EvalRec(Top.task.params.m[o[i]],
                               [ctxs' EXCEPT ![c] = C20_Before(i)], c)
           /\ \A n \in DOMAIN ctxs'[c] \ keys :
                 n \in DOMAIN C20_Found /\ ctxs'[c][n] = C20_Found[n]
           /\ \A n \in DOMAIN C20_Found : n \in DOMAIN ctxs'[c]
           /\ \A k \in DOMAIN ctxs : k # c => ctxs'[k] = ctxs[k]

\* The scripts of a `vars` of a and b followed by a reader of "{{ a + b }}"
C20_Read ==
    source \in VarsSources =>
       \A i \in DOMAIN trace :
          (trace[i].path = <<2>> /\ trace[i].phase \in {"ok", "finish"}) =>
             /\ i = 2 /\ trace[1].path = <<1>> /\ trace[1].phase = "ok"
             /\ {"a", "b"} \subseteq DOMAIN ctxs[1]
             /\ ctxs[1].a.k = "int" /\ ctxs[1].b.k = "int"
             /\ trace[i].arg = Num(ctxs[1].a.n + ctxs[1].b.n)
             /\ pc = "done" /\ trace[i].phase = "finish"
                   => Returned(trace[i].arg)

C20_Vars == [](C20_Read) /\ [][C20_Step]_vars

\* vars {a: 1, b: 2} then return "{{ a + b }}": execute returned 3.
C20_Witness ==
    /\ pc = "done" /\ Returned(Num(3))
    /\ source = List(<<Plain(<<"vars", DictOf(<< <<"a", Num(1)>>, <<"b", Num(2)>> >>)>>),
                       Plain(<<"return", Tmpl(Add(Var("a"), Var("b")))>>)>>)
    /\ Len(trace) = 2 /\ trace[1].task.kind = "vars" /\ trace[1].phase = "ok"
    /\ ctxs[1].a = Num(1) /\ ctxs[1].b = Num(2)

(***************************************************************************)
(* C21.  When a body raised FinishScript with a value that is undefined,   *)
(* execute raises ExecutionFailed("Script returned undefined value") and   *)
(* returns nothing; when the value is defined and no Namespace (None, a    *)
(* number, a string, a list) execute returns that very value.              *)
(***************************************************************************)
UndefinedValue == ExecutionFailed(<<"Script returned undefined value">>)

C21_Step ==
    (pc = "run" /\ exc.k = "finish" /\ Top.f = "script") =>
       /\ pc' = "done"
       /\ exc.v = Undefined => outcome' = [st |-> "raised", e |-> UndefinedValue]
       /\ exc.v.k \notin {"undef", "ns"} =>
             outcome' = [st |-> "returned", v |-> exc.v]

C21_Outcome ==
    pc = "done" =>
       \A i \in DOMAIN trace :
          trace[i].phase = "finish" =>
             /\ i = Len(trace)
             /\ trace[i].arg = Undefined
                   => outcome = [st |-> "raised", e |-> UndefinedValue]
             /\ trace[i].arg.k \notin {"undef", "ns"} => Returned(trace[i].arg)

C21_FinishUndefined == [](C21_Outcome) /\ [][C21_Step]_vars

\* `return: "{{ x }}"` with x unset: the body raised FinishScript with the
\* undefined value and execute raised ExecutionFailed.
C21_Witness ==
    /\ pc = "done"
    /\ trace # <<>> /\ Last(trace).phase = "finish" /\ Last(trace).arg = Undefined
    /\ outcome = [st |-> "raised", e |-> UndefinedValue]

(***************************************************************************)
(* C22.  What execute returns holds no Namespace: it is a scalar, a list   *)
(* of such values or a plain mapping of such values, to any depth.         *)
(***************************************************************************)
RECURSIVE Materialized(_)
Materialized(v) ==
    CASE v.k = "ns" -> FALSE
      [] v.k = "list" -> \A i \in DOMAIN v.items : Materialized(v.items[i])
      [] v.k = "map" -> \A n \in DOMAIN v.m : Materialized(v.m[n])
      [] OTHER -> TRUE

C22_Materialized ==
    (pc = "done" /\ outcome.st = "returned") => Materialized(outcome.v)

\* The same for the results that have no mapping within a list
RECURSIVE MappingInList(_, _)
MappingInList(v, inlist) ==
    CASE v.k = "list" -> \E i \in DOMAIN v.items : MappingInList(v.items[i], TRUE)
      [] v.k \in {"map", "ns"} ->
            inlist \/ \E n \in DOMAIN v.m : MappingInList(v.m[n], FALSE)
      [] OTHER -> FALSE

C22_MappingsMaterialized ==
    (pc = "done" /\ outcome.st = "returned"
       /\ trace # <<>> /\ Last(trace).phase = "finish"
       /\ "result" \in DOMAIN Last(trace).task.params.m
       /\ ~MappingInList(Last(trace).task.params.m.result, FALSE))
          => Materialized(outcome.v)

(***************************************************************************)
(* C23.  The list L and the mapping {"tasks": L} make the same Script:     *)
(* Script.__init__ raises the same error for both or loads the same tasks, *)
(* and the execution, which reads the tasks and the context only, ends in  *)
(* the same way: for L = [vars: {x: 1}, return: "{{ x }}"] both return 1   *)
(* and leave x = 1 in the context.                                         *)
(***************************************************************************)
\* The other form of the source: the mapping of a list, the list of a
\* mapping that has the key tasks only
IsTasksMapping(src) ==
    src.k = "map" /\ DOMAIN src.m = {"tasks"} /\ src.m.tasks.k = "list"
OtherForm(src) ==
    IF src.k = "list" THEN Dict(<<"tasks">>, [tasks |-> src])
    ELSE src.m.tasks

C23_SameScript ==
    (pc # "new" /\ (source.k = "list" \/ IsTasksMapping(source))) =>
       LET r == ScriptInit(OtherForm(source), ctxs)
       IN  IF IsErr(r)
           THEN tasks = <<>> /\ pc = "done"
                /\ outcome = [st |-> "raised", e |-> r]
           ELSE tasks = r.items

C23_SameOutcome ==
    (pc = "done" /\ source \in {List(<<SetX, ReturnX>>),
                                OtherForm(List(<<SetX, ReturnX>>))}) =>
       /\ Returned(Num(1))
       /\ Len(ctxs) = 1 /\ ctxs[1].x = Num(1)
       /\ Len(trace) = 2

\* Once the tasks are loaded, nothing reads or writes the source.
C23_Step == pc # "new" => source' = source /\ tasks' = tasks

C23_RoundTrip == [](C23_SameScript /\ C23_SameOutcome) /\ [][C23_Step]_vars

\* {"tasks": [vars: {x: 1}, return: "{{ x }}"]} returned 1, with the tasks
\* that the bare list loads.
C23_Witness ==
    /\ pc = "done" /\ Returned(Num(1))
    /\ source = OtherForm(List(<<SetX, ReturnX>>))
    /\ tasks = ScriptInit(List(<<SetX, ReturnX>>), ctxs).items

(***************************************************************************)
(* C24.  A call of the script changes neither the tasks of the Script nor  *)
(* their stored parameters: validate casts the copy that _execute_one      *)
(* makes for the call.  A second call of the script with a context that    *)
(* holds what the context of the first call held at its start (for         *)
(* script() a new, empty Context) therefore makes the same calls of        *)
(* _execute_one and ends with the same outcome and the same contexts as    *)
(* the first one, and finds nothing of what the first call wrote.          *)
(***************************************************************************)
C24_Step ==
    /\ pc # "new" => tasks' = tasks
    /\ (pc = "done" /\ pc' = "run") =>
          /\ ctxs' = <<calls.context>>
          /\ trace' = <<>> /\ outcome'.st = "none"
          /\ calls'.context = calls.context
          /\ calls'.past = Append(calls.past, [outcome |-> outcome,
                                               trace |-> trace, ctxs |-> ctxs])
    /\ ~(pc = "done" /\ pc' = "run") => calls' = calls

\* The frames run the tasks as they are stored.
C24_Stored ==
    \A s \in DOMAIN stack :
       (stack[s].f = "call" /\ Len(stack[s].path) = 1) =>
          stack[s].task = tasks[stack[s].path[1]]

C24_SameOutcome ==
    (pc = "done" /\ calls.past # <<>>) =>
       /\ outcome = calls.past[1].outcome
       /\ trace = calls.past[1].trace
       /\ ctxs = calls.past[1].ctxs

C24_Reexecutable ==
    [](C24_Stored /\ C24_SameOutcome) /\ [][C24_Step]_vars

\* The second call of a script has ended as the first one; the task cast a
\* parameter, and x, which the calls wrote, was not in the context at the
\* start of either.
C24_Witness ==
    /\ pc = "done" /\ calls.past # <<>>
    /\ outcome = calls.past[1].outcome
    /\ "x" \in DOMAIN ctxs[1] /\ "x" \notin DOMAIN calls.context
    /\ \E i \in DOMAIN trace : trace[i].phase = "ok" /\ trace[i].task.kind = "test"

(***************************************************************************)
(* C25.  Every Result that _execute_one returns has failed = not           *)
(* succeeded, has failure = None exactly when it succeeded, and, when it   *)
(* is skipped, succeeded, has no failure and has no field but the four     *)
(* status fields.  The status fields tell what happened (skipped: the      *)
(* condition was false; failed: validate or the body raised), also when    *)
(* the body returned a mapping with keys of these names.                   *)
(***************************************************************************)
StatusFields == {"succeeded", "failed", "failure", "skipped"}

WellFormed(r) ==
    /\ r.k = "result"
    /\ StatusFields \subseteq DOMAIN r.d
    /\ r.d.succeeded.k = "bool" /\ r.d.failed.k = "bool" /\ r.d.skipped.k = "bool"
    /\ r.d.failed.b = ~r.d.succeeded.b
    /\ (r.d.failure = None) = r.d.succeeded.b
    /\ r.d.skipped.b =>
          r.d.succeeded.b /\ r.d.failure = None /\ DOMAIN r.d = StatusFields

C25_Step ==
    Collects =>
       /\ WellFormed(NewResult)
       /\ Len(trace') = Len(trace) + 1 =>
             /\ NewResult.d.skipped.b = (Last(trace').phase = "skipped")
             /\ NewResult.d.succeeded.b = (Last(trace').phase \in {"skipped", "ok"})
             /\ NewResult.d.failed.b => NewResult.d.failure.k = "msg"

\* The Results that are registered
C25_Registered ==
    \A c \in DOMAIN ctxs : \A n \in DOMAIN ctxs[c] :
       LET v == ctxs[c][n]
       IN  /\ v.k = "result" => WellFormed(v)
           /\ (v.k = "map" /\ DOMAIN v.m = {"results"}) =>
                 \A i \in DOMAIN v.m.results.items :
                    WellFormed(v.m.results.items[i])

C25_ResultStatus == [](C25_Registered) /\ [][C25_Step]_vars

\* The body returned {succeeded: false, failed: true, failure: "fake",
\* skipped: true}; the Result that was registered says that the task
\* succeeded and was not skipped.
C25_Witness ==
    /\ pc = "done" /\ "r" \in DOMAIN ctxs[1] /\ ctxs[1].r.k = "result"
    /\ trace[1].task.kind = "status" /\ trace[1].phase = "ok"
    /\ ctxs[1].r.d.succeeded = Bool(TRUE) /\ ctxs[1].r.d.failed = Bool(FALSE)
    /\ ctxs[1].r.d.failure = None /\ ctxs[1].r.d.skipped = Bool(FALSE)

(***************************************************************************)
(* C26.  The constructor of a task rejects with InvalidTask, in a message  *)
(* that names the key, a definition whose ignore_errors is no boolean,     *)
(* whose register or name is no string or whose loop is neither a string   *)
(* nor a list, and with InvalidTask "Unknown top-level parameters" a       *)
(* definition that has a key besides the kind and the five control keys.   *)
(* The task of a definition without name is named after its kind, and     *)
(* that of one without ignore_errors does not ignore errors.               *)
(***************************************************************************)
\* The control keys of definition d whose value is of a wrong type
WrongControls(d) ==
    {key \in DOMAIN d.m :
        \/ key = "ignore_errors" /\ d.m[key].k # "bool"
        \/ key \in {"register", "name"} /\ d.m[key].k # "str"
        \/ key = "loop" /\ d.m[key].k \notin {"str", "list"}}

ControlMessage(key, kind) ==
    CASE key = "ignore_errors" ->
            <<"The ignore_errors parameter must be a boolean for task ", kind>>
      [] key = "register" ->
            <<"The register parameter must be a string for task ", kind>>
      [] key = "name" ->
            <<"The name parameter must be a string for task ", kind>>
      [] key = "loop" ->
            <<"The loop parameter must be a template or a list for task ", kind>>

C26_Definition(j) ==
    LET d == TaskDefinitions[j]
        kind == CHOOSE n \in Matching(d) : TRUE
        left == DOMAIN d.m \ ({kind} \cup KnownParameters)
        r == Resolved(j)
    IN  (d.k = "map" /\ Cardinality(Matching(d)) = 1) =>
           /\ WrongControls(d) # {} =>
                 /\ IsErr(r) /\ r.cls = "InvalidTask"
                 /\ \E key \in WrongControls(d) : r.msg = ControlMessage(key, kind)
           /\ (WrongControls(d) = {} /\ left # {}) =>
                 r = InvalidTask(<<"Unknown top-level parameters for task ", kind>>)
           /\ r.k = "task" =>
                 /\ WrongControls(d) = {} /\ left = {}
                 /\ r.name = IF "name" \in DOMAIN d.m THEN d.m.name ELSE Name(kind)
                 /\ r.ignore_errors = IF "ignore_errors" \in DOMAIN d.m
                                      THEN d.m.ignore_errors.b ELSE FALSE

\* The first definition that is rejected ends the construction of the Script.
C26_Raised ==
    (pc = "done" /\ tasks = <<>> /\ ~Misformed) =>
       \E j \in DOMAIN TaskDefinitions :
          /\ outcome = [st |-> "raised", e |-> Resolved(j)]
          /\ \A i \in 1..(j - 1) : ~IsErr(Resolved(i))

C26_ControlKeys ==
    Loading =>
    /\ \A j \in DOMAIN TaskDefinitions : C26_Definition(j)
    /\ C26_Raised

\* `register: 42` on the second definition: InvalidTask names register, and
\* the `vars` before it was not run.
C26_Witness ==
    /\ pc = "done" /\ Len(TaskDefinitions) = 2
    /\ WrongControls(TaskDefinitions[2]) = {"register"}
    /\ outcome = [st |-> "raised",
                  e |-> InvalidTask(ControlMessage("register", "test"))]
    /\ trace = <<>>

(***************************************************************************)
(* C27.  A definition whose `when` is neither a string nor a list of       *)
(* strings is rejected with InvalidTask when the Script is constructed:    *)
(* no task is run, and execute raises InvalidTask.                         *)
(***************************************************************************)
WrongWhen(d) ==
    /\ d.k = "map" /\ "when" \in DOMAIN d.m
    /\ d.m.when.k # "str"
    /\ ~(/\ d.m.when.k = "list"
         /\ \A i \in DOMAIN d.m.when.items : d.m.when.items[i].k = "str")

C27_WhenChecked ==
    \A j \in DOMAIN TaskDefinitions :
       (WrongWhen(TaskDefinitions[j]) /\ \A i \in 1..(j - 1) : ~IsErr(Resolved(i)))
          => /\ IsErr(Resolved(j)) /\ Resolved(j).cls = "InvalidTask"
             /\ trace = <<>>
             /\ pc = "done" => outcome = [st |-> "raised", e |-> Resolved(j)]

\* What the constructor and the call do with such a `when`: the definition
\* is loaded, the tasks before it run, and the value is iterated over when
\* the condition is evaluated.
C27_WhenAtExecution ==
    \A j \in DOMAIN TaskDefinitions :
       (WrongWhen(TaskDefinitions[j]) /\ Cardinality(Matching(TaskDefinitions[j])) = 1
          /\ WrongControls(TaskDefinitions[j]) = {}) =>
          /\ Resolved(j).k = "task"
          /\ Resolved(j).when.definition = TaskDefinitions[j].m.when
          /\ \A i \in DOMAIN trace :
                (trace[i].path = <<j>> /\ trace[i].task.when.definition.k = "int") =>
                   /\ trace[i].phase = "condition failed"
                   /\ trace[i].error.cls = "TypeError"
                   /\ pc = "done" =>
                         /\ outcome.st = "raised"
                         /\ outcome.e.cls = "ExecutionFailed"

(***************************************************************************)
(* C28.  The parameters the constructor stores for the payload of a        *)
(* definition: the empty mapping for None; the payload itself for a        *)
(* mapping whose keys are strings, InvalidTask for a mapping that has      *)
(* another key; for any other payload {singleton_param: payload} when the  *)
(* kind has a singleton parameter and InvalidTask "accepts an object, not  *)
(* ..." when it has none.                                                  *)
(***************************************************************************)
C28_Definition(j) ==
    LET d == TaskDefinitions[j]
        kind == CHOOSE n \in Matching(d) : TRUE
        p == d.m[kind]
        r == Resolved(j)
    IN  (d.k = "map" /\ Cardinality(Matching(d)) = 1 /\ WrongControls(d) = {}
           /\ DOMAIN d.m \subseteq {kind} \cup KnownParameters) =>
           /\ p = None => r.k = "task" /\ r.params = EmptyDict
           /\ (p.k = "map" /\ NonStringKeys(p) = {}) =>
                 r.k = "task" /\ r.params = p
           /\ (p.k = "map" /\ NonStringKeys(p) # {}) =>
                 r = InvalidTask(<<"Parameters for task ",
                                   TextOf(IF "name" \in DOMAIN d.m THEN d.m.name
                                          ELSE Name(kind)),
                                   " must have string keys">>)
           /\ (p.k \notin {"none", "map"} /\ HasSingleton(kind)) =>
                 /\ r.k = "task"
                 /\ r.params.o = <<singleton_param(kind)>>
                 /\ DOMAIN r.params.m = {singleton_param(kind)}
                 /\ r.params.m[singleton_param(kind)] = p
           /\ (p.k \notin {"none", "map"} /\ ~HasSingleton(kind)) =>
                 /\ IsErr(r) /\ r.cls = "InvalidTask"
                 /\ " accepts an object, not " \in Tokens(r.msg)
                 /\ Last(r.msg) = TextOf(p)

\* The kinds that have a singleton parameter, as tasks.py declares them
C28_Singletons ==
    /\ \A kind \in {"test", "vars", "log"} : ~HasSingleton(kind)
    /\ singleton_param("return") = "result" /\ HasSingleton("return")
    /\ Class("fail") = "Fail" =>
          singleton_param("fail") = "msg" /\ HasSingleton("fail")
    /\ singleton_param("block") = "tasks" /\ HasSingleton("block")

C28_Payload ==
    Loading =>
    /\ C28_Singletons
    /\ \A j \in DOMAIN TaskDefinitions : C28_Definition(j)
    /\ pc = "run" => \A j \in DOMAIN tasks : tasks[j] = Resolved(j)

\* `return: 42` was stored as {result: 42} and execute returned 42.
C28_Witness ==
    /\ pc = "done" /\ source = List(<<DictOf(<< <<"return", Num(42)>> >>)>>)
    /\ tasks[1].params = DictOf(<< <<"result", Num(42)>> >>)
    /\ Returned(Num(42))

(***************************************************************************)
(* C29.  The default Task.validate, called by _execute_one with the        *)
(* parameters of the execution once the condition of the task passed.  It  *)
(* raises InvalidTask                                                      *)
(*   - "parameter(s) not recognized" with the names of the parameters that *)
(*     are neither required nor optional, when the kind is not free-form;  *)
(*   - otherwise "parameter(s) required" with the name of every required   *)
(*     parameter that is absent, whatever free_form says;                  *)
(*   - otherwise "at least one of ... is required", with the names of the  *)
(*     optional parameters, when there is no parameter and allow_empty is  *)
(*     false.                                                              *)
(* It succeeds exactly when no required parameter is absent, no parameter  *)
(* is unknown or the kind is free-form, the parameters are not empty or    *)
(* allow_empty is true, and the caster of every typed parameter that is    *)
(* present accepts its value.                                              *)
(***************************************************************************)
\* The event is a validate that raised InvalidTask with these tokens.
C29_Fails(e, head, names) ==
    /\ e.phase = "validate failed"
    /\ e.error.cls = "InvalidTask"
    /\ Head(e.error.msg) = head
    /\ Tokens(Tail(e.error.msg)) = names
    /\ Len(e.error.msg) = 1 + Cardinality(names)

C29_Validate(kind, p, cs, e) ==
    LET known == required_params(kind) \o optional_params(kind)
        unknown == DOMAIN p.m \ Names(known)
        missing == Names(required_params(kind)) \ DOMAIN p.m
        open == free_form(kind) \/ unknown = {}
        empty == DOMAIN p.m = {} /\ ~allow_empty(kind)
        accepted == \A i \in DOMAIN known :
                       (known[i][2] # "any" /\ known[i][1] \in DOMAIN p.m) =>
                          ~IsErr(Cast(known[i][2], ParamGet(p, known[i][1], cs)))
    IN  /\ ~open => C29_Fails(e, "parameter(s) not recognized: ", unknown)
        /\ (open /\ missing # {}) =>
              C29_Fails(e, "parameter(s) required: ", missing)
        /\ (open /\ missing = {} /\ empty) =>
              /\ e.phase = "validate failed"
              /\ e.error = InvalidTask(<<"at least one of ">>
                                       \o NameSeq(optional_params(kind))
                                       \o <<" is required">>)
        /\ e.phase # "validate failed" <=>
              (open /\ missing = {} /\ ~empty /\ accepted)

C29_Step ==
    (/\ AtItem
     /\ Top.task.kind # "block"
     /\ Condition(Top.task, IterationContexts(Top, ctxs),
                  IterationContext(Top, ctxs)) = Bool(TRUE)
     /\ ~IsErr(NewParams(Top.task, IterationContexts(Top, ctxs),
                         IterationContext(Top, ctxs)))) =>
       C29_Validate(Top.task.kind,
                    NewParams(Top.task, IterationContexts(Top, ctxs),
                              IterationContext(Top, ctxs)),
                    IterationContexts(Top, ctxs), Last(trace'))

\* The kinds of tasks.py: `log` alone refuses empty parameters, `vars` alone
\* is free-form.
C29_Kinds ==
    /\ \A kind \in {"fail", "log", "return", "vars", "block"} :
          /\ allow_empty(kind) <=> kind # "log"
          /\ free_form(kind) <=> kind = "vars"
    /\ Names(optional_params("log")) = {"debug", "info", "warning", "error"}
    /\ required_params("log") = <<>>

C29_DefaultValidation == [][C29_Kinds /\ C29_Step]_vars

\* A free-form task without its two required parameters was refused with
\* one error that has the two names.
C29_Witness ==
    /\ trace # <<>>
    /\ LET e == trace[1]
       IN  /\ e.task.kind = "open"
           /\ DOMAIN e.task.params.m = {"other"}
           /\ C29_Fails(e, "parameter(s) required: ", {"first", "second"})

(***************************************************************************)
(* C30.  What Task.validate evaluates.  Once the parameters have the shape *)
(* of C29, validate reads, so evaluates, the present parameters that have  *)
(* a declared type, in the order of their declaration, and stores what the *)
(* caster makes of the value ("42" becomes 42); an error of the template   *)
(* or of the caster is raised as InvalidTask "invalid value for parameter" *)
(* with the name of the parameter.  It does not read a parameter that has  *)
(* no declared type.                                                       *)
(*                                                                         *)
(* C30_Lazy adds that a parameter with no declared type is evaluated only  *)
(* when the body reads it: the parameters that validate and the body get   *)
(* hold its raw value.  C30_Validation is the statement the program meets: *)
(* the raw value is there when the stored parameters are a dict, which     *)
(* they are for the tasks of the script.  For the child of a block whose   *)
(* payload is a mapping they are a Namespace, and Namespace(environment,   *)
(* context, self.params) of _execute_one copies it with dict(), which      *)
(* reads every value: all the parameters are evaluated before validate is  *)
(* called, in the context of the block, outside the try block.             *)
(***************************************************************************)
\* The casters, on the values of the tests.
C30_Casters ==
    /\ Cast("int", Evaluate(Bare(Lit(Num(42))), ctxs, 1)) = Num(42)
    /\ Cast("str", Num(7)) = Bare(Lit(Num(7)))
    /\ IsErr(Cast("int", Text("t"))) /\ Cast("int", Text("t")).cls = "ValueError"
    /\ IsErr(Cast("int", Undefined))
    /\ Cast("any", Tmpl(BadExpr)) = Tmpl(BadExpr)

\* validate of the parameters p, which have the shape the kind asks for;
\* e is the event of the step.
C30_Validate(kind, p, cs, e) ==
    LET known == required_params(kind) \o optional_params(kind)
        typed == {i \in DOMAIN known :
                    known[i][2] # "any" /\ known[i][1] \in DOMAIN p.m}
        cast(i) == Cast(known[i][2], ParamGet(p, known[i][1], cs))
        bad == {i \in typed : IsErr(cast(i))}
        r == validate(kind, p, cs)
    IN  /\ bad # {} =>
              /\ e.phase = "validate failed"
              /\ e.error = r
              /\ r.cls = "InvalidTask"
              /\ r.msg[1] = "invalid value for parameter "
              /\ \E i \in bad : r.msg[2] = known[i][1]
        /\ bad = {} =>
              /\ e.phase # "validate failed"
              /\ r.k = "ns" /\ r.o = p.o /\ DOMAIN r.m = DOMAIN p.m
              /\ \A i \in typed : r.m[known[i][1]] = cast(i)
              /\ \A n \in DOMAIN p.m \ {known[i][1] : i \in typed} :
                    r.m[n] = p.m[n]

\* The task on top is about to be validated, with parameters of the shape
\* its kind asks for.
C30_AtValidate ==
    /\ AtItem
    /\ Top.task.kind # "block"
    /\ Condition(Top.task, IterationContexts(Top, ctxs),
                 IterationContext(Top, ctxs)) = Bool(TRUE)
    /\ LET kind == Top.task.kind
           names == DOMAIN Top.task.params.m
       IN  /\ free_form(kind)
              \/ names \subseteq Names(required_params(kind))
                                   \cup Names(optional_params(kind))
           /\ Names(required_params(kind)) \subseteq names
           /\ names # {} \/ allow_empty(kind)

C30_Params == NewParams(Top.task, IterationContexts(Top, ctxs),
                        IterationContext(Top, ctxs))

\* The parameters of the execution hold the raw values of the task.
C30_Raw ==
    /\ ~IsErr(C30_Params)
    /\ \A n \in DOMAIN Top.task.params.m : C30_Params.m[n] = Top.task.params.m[n]

C30_LazyStep ==
    C30_AtValidate =>
       /\ C30_Raw
       /\ C30_Validate(Top.task.kind, C30_Params,
                       IterationContexts(Top, ctxs), Last(trace'))

C30_Lazy == [][C30_Casters /\ C30_LazyStep]_vars

C30_ValidationStep ==
    C30_AtValidate =>
       /\ Top.task.params.k = "map" => C30_Raw
       /\ ~IsErr(C30_Params) =>
             C30_Validate(Top.task.kind, C30_Params,
                          IterationContexts(Top, ctxs), Last(trace'))

C30_TopLevel == \A j \in DOMAIN tasks : tasks[j].params.k = "map"

C30_Validation == [][C30_Casters /\ C30_TopLevel /\ C30_ValidationStep]_vars

(***************************************************************************)
(* C31.  Engine(tasks): when a name of `tasks` is one of the control keys  *)
(* name, when, ignore_errors, register, loop, Engine raises ValueError and *)
(* the caller has no new engine; with any other names the engine is made,  *)
(* and its registry has the built-in kinds and the kinds of the caller.    *)
(***************************************************************************)
Conflicts(given) == DOMAIN given \cap KnownParameters

\* The step is a call of Engine
Constructs == engine'.made = engine.made + 1

C31_Step ==
    /\ engine' # engine => Constructs
    /\ Constructs =>
          LET given == engine'.given
          IN  /\ given \in TasksArguments
              /\ Conflicts(given) # {} =>
                    /\ IsErr(engine'.error) /\ engine'.error.cls = "ValueError"
                    /\ Tokens(engine'.error.msg) \cap KnownParameters
                          = Conflicts(given)
                    /\ engine'.tasks = engine.tasks
                    /\ engine'.others = engine.others
              /\ Conflicts(given) = {} =>
                    /\ engine'.error = NoErr
                    /\ engine'.others = Append(engine.others, engine.tasks)
                    /\ DOMAIN engine'.tasks = DOMAIN _BUILTINS \cup DOMAIN given
                    /\ \A n \in DOMAIN given : engine'.tasks[n] = given[n]

\* No engine has a kind with the name of a control key, and the engine of
\* the tests has the kinds of Kinds.
C31_Registry ==
    /\ DOMAIN engine.tasks \cap KnownParameters = {}
    /\ \A i \in DOMAIN engine.others :
          DOMAIN engine.others[i] \cap KnownParameters = {}
    /\ engine.made = 1 => DOMAIN engine.tasks = Kinds
    /\ DOMAIN _BUILTINS \subseteq DOMAIN engine.tasks

C31_ForbiddenNames == [][C31_Registry /\ C31_Step]_vars

\* Engine() was made, with the built-in kinds alone, and then
\* Engine({"when": TestTask}) raised ValueError.
C31_Witness ==
    /\ engine.made = 3
    /\ engine.given = ("when" :> "TestTask")
    /\ IsErr(engine.error)
    /\ engine.tasks = _BUILTINS
    /\ Len(engine.others) = 1

(***************************************************************************)
(* C32.  A kind of the caller with the name of a built-in kind: the        *)
(* registry of the engine that is made has the class of the caller for     *)
(* this name, and the scripts of the engine execute this class (FailTask   *)
(* raises RuntimeError where Fail raises Aborted or asks for msg).         *)
(* _BUILTINS and the registries of the engines made before stay as they    *)
(* were.                                                                   *)
(***************************************************************************)
C32_Step ==
    /\ engine'.builtins = engine.builtins
    /\ \A i \in DOMAIN engine.others :
          i \in DOMAIN engine'.others /\ engine'.others[i] = engine.others[i]
    /\ (Constructs /\ engine'.error = NoErr) =>
          /\ \A n \in DOMAIN engine'.given : engine'.tasks[n] = engine'.given[n]
          /\ \A n \in DOMAIN _BUILTINS \ DOMAIN engine'.given :
                engine'.tasks[n] = _BUILTINS[n]
          /\ engine'.others[Len(engine'.others)] = engine.tasks

\* What the scripts execute for `fail`
C32_Executed ==
    \A i \in DOMAIN trace :
       (trace[i].task.kind = "fail"
          /\ trace[i].phase \in {"ok", "exc", "validate failed"}) =>
          IF Class("fail") = "FailTask"
          THEN \/ /\ trace[i].phase = "exc"
                  /\ trace[i].error = Err("RuntimeError", <<"I'm tired">>)
                  /\ DOMAIN trace[i].task.params.m = {}
               \/ /\ trace[i].phase = "validate failed"
                  /\ DOMAIN trace[i].task.params.m # {}
          ELSE \/ trace[i].phase = "exc" /\ trace[i].error.cls = "Aborted"
               \/ trace[i].phase = "exc" /\ "msg" \in DOMAIN trace[i].task.params.m
               \/ trace[i].phase = "validate failed"

C32_Override ==
    [][engine.builtins = _BUILTINS /\ C32_Executed /\ C32_Step]_vars

\* test_execute_fail, on an engine made after the engine of the other
\* tests, which still has Fail.
C32_Witness ==
    /\ pc = "done" /\ source = List(<<DictOf(<< <<"fail", None>> >>)>>)
    /\ Class("fail") = "FailTask"
    /\ engine.others # <<>> /\ engine.others[1]["fail"] = "Fail"
    /\ outcome.st = "raised" /\ outcome.e.cls = "ExecutionFailed"
    /\ "I'm tired" \in Tokens(outcome.e.msg)

(***************************************************************************)
(* C33.  A task that raises does not write its register.  The call raises  *)
(* when its condition fails, and when its body fails and the task has no   *)
(* ignore_errors; the exception leaves Task.__call__ at once: the frame    *)
(* of the call is dropped with the Results of the earlier items and with   *)
(* the items that were not reached, the variable named by `register` is    *)
(* bound, or not bound, as it was, and no context changes while the        *)
(* exception travels.                                                      *)
(***************************************************************************)
\* An error leaves the call on top of the stack.
C33_Raises == pc = "run" /\ Top.f = "call" /\ pc' = "run" /\ IsErr(exc')

C33_Kept(n) ==
    \A k \in DOMAIN ctxs :
       /\ (n \in DOMAIN ctxs'[k]) = (n \in DOMAIN ctxs[k])
       /\ n \in DOMAIN ctxs[k] => ctxs'[k][n] = ctxs[k][n]

C33_Step ==
    /\ C33_Raises =>
          /\ stack' = Pop(stack)
          /\ Len(ctxs') = Len(ctxs) \/ Top.looped
          /\ Top.task.register # None => C33_Kept(TextOf(Top.task.register))
    /\ AtItem /\ Last(trace').phase \in {"condition failed", "params failed"}
          => C33_Raises
    /\ AtItem /\ Last(trace').phase \in {"validate failed", "exc", "wrong result"}
              /\ ~Top.task.ignore_errors => C33_Raises
    /\ pc = "run" /\ IsErr(exc) /\ Top.f = "call" /\ ~Top.task.ignore_errors
          => C33_Raises
    /\ pc = "run" /\ exc # NoExc => ctxs' = ctxs

C33_RegisterKept == [][C33_Step]_vars

\* The first of the two iterations of a `fail` that registers r raised: the
\* script is over and r is what the caller had bound it to.
C33_Witness ==
    /\ pc = "done" /\ Len(trace) = 1
    /\ trace[1].phase = "exc" /\ trace[1].n = 1
    /\ trace[1].task.loop = List(<<Num(1), Num(1)>>)
    /\ trace[1].task.register # None
    /\ "r" \in DOMAIN ctxs[1] /\ ctxs[1].r = Num(2)

(***************************************************************************)
(* C34.  The loop of a task of the script is resolved in Task.__call__,    *)
(* outside the try blocks of _execute_one.  When its template raises, or   *)
(* its value is a number, a boolean or None, the error leaves the call     *)
(* whatever the task's ignore_errors is: _execute_one is not called, no    *)
(* context changes, and Script.__call__ raises ExecutionFailed with the    *)
(* name of the task.                                                       *)
(***************************************************************************)
\* Script.__call__ is about to call its next task, whose loop fails.
C34_LoopFails ==
    /\ pc = "run" /\ exc = NoExc /\ Top.f = "script" /\ Top.i < Len(tasks)
    /\ tasks[Top.i + 1].loop # None
    /\ LET loop == EvalRec(tasks[Top.i + 1].loop, ctxs, 1)
       IN  IsErr(loop) \/ loop.k \in {"int", "bool", "none"}

\* The error of a loop is with Script.__call__.
C34_LoopFailed ==
    /\ pc = "run" /\ IsErr(exc) /\ ~IsExecutionFailed(exc) /\ Top.f = "script"

C34_Step ==
    /\ C34_LoopFails =>
          /\ C34_LoopFailed'
          /\ stack' = stack /\ ctxs' = ctxs /\ trace' = trace
    /\ C34_LoopFailed =>
          /\ tasks[Top.i + 1].loop # None
          /\ pc' = "done" /\ ctxs' = ctxs /\ trace' = trace
          /\ outcome'.st = "raised" /\ outcome'.e.cls = "ExecutionFailed"
          /\ SubSeq(outcome'.e.msg, 1, 3) =
                <<"Failed to execute task ", TextOf(tasks[Top.i + 1].name), ". ">>

C34_LoopNotCovered == [][C34_Step]_vars

\* `loop: "{{ 42 }}"` with ignore_errors and register: r, in the context
\* that binds r to 2: execute raised, nothing was executed, r is 2.
C34_Witness ==
    /\ pc = "done" /\ outcome.st = "raised" /\ trace = <<>>
    /\ tasks # <<>> /\ tasks[1].loop = Tmpl(Lit(Num(42)))
    /\ tasks[1].ignore_errors /\ tasks[1].register # None
    /\ "TypeError" \in Tokens(outcome.e.msg)
    /\ ctxs = <<[item |-> Num(3), r |-> Num(2)]>>

(***************************************************************************)
(* C35.  A task without a loop that its `when` skips and that has          *)
(* `register: v`: _execute_one returns Result({}, skipped=True) and        *)
(* Task.__call__ binds v to it in the context of the call, over what v     *)
(* was bound to: a Result with skipped and succeeded true, failed false,   *)
(* failure None and no other field.                                        *)
(***************************************************************************)
C35_Skipped ==
    [k |-> "result",
     d |-> [skipped |-> Bool(TRUE), succeeded |-> Bool(TRUE),
            failed |-> Bool(FALSE), failure |-> None]]

C35_Step ==
    /\ Guarded /\ SomeFalsy /\ ~Top.looped =>
          AtReturn' /\ Top'.results = <<C35_Skipped>> /\ Top'.task = Top.task
    /\ AtReturn /\ ~Top.looped /\ Top.results = <<C35_Skipped>>
                /\ Top.task.register # None =>
          /\ TextOf(Top.task.register) \in DOMAIN ctxs'[Top.c]
          /\ ctxs'[Top.c][TextOf(Top.task.register)] = C35_Skipped

C35_SkippedRegistered == [][C35_Step]_vars

\* The first task was skipped and registers r, which the caller had bound
\* to 2: r is the Result of the skipped task.
C35_Witness ==
    /\ pc = "done" /\ trace # <<>>
    /\ trace[1].phase = "skipped" /\ trace[1].path = <<1>>
    /\ trace[1].task.loop = None /\ trace[1].task.register # None
    /\ "item" \in DOMAIN ctxs[1] /\ ctxs[1].item = Num(3)
    /\ ctxs[1].r = C35_Skipped

(***************************************************************************)
(* C36.  When.__call__ is all() over a generator: the conditions are       *)
(* evaluated in the order of the list, up to the first falsy one.  With a  *)
(* falsy condition that only truthy ones precede, the task is skipped,     *)
(* whatever the conditions after it would evaluate or raise; with a        *)
(* condition that raises and that only truthy ones precede, the task       *)
(* raises ExecutionFailed; with the empty list the body runs.              *)
(***************************************************************************)
C36_TruthyBefore(i) ==
    \A j \in 1..(i - 1) : ~IsErr(Conditions[j]) /\ Truthy(Conditions[j])

C36_FirstFalsy(i) ==
    /\ ~IsErr(Conditions[i]) /\ ~Truthy(Conditions[i])
    /\ C36_TruthyBefore(i)

C36_FirstRaises(i) == IsErr(Conditions[i]) /\ C36_TruthyBefore(i)

C36_Step ==
    Guarded =>
       /\ (\E i \in DOMAIN Conditions : C36_FirstFalsy(i)) =>
             /\ Last(trace').phase = "skipped"
             /\ Collects /\ NewResult.d.skipped = Bool(TRUE)
       /\ \A i \in DOMAIN Conditions : C36_FirstRaises(i) =>
             /\ Last(trace').phase = "condition failed"
             /\ Last(trace').error = Conditions[i]
             /\ IsErr(exc') /\ exc'.cls = "ExecutionFailed"
             /\ stack' = Pop(stack)
       /\ Conditions = <<>> =>
             Last(trace').phase \notin {"skipped", "condition failed"}

C36_WhenOrder == [][C36_Step]_vars

\* The task whose `when` is [false, a condition that raises] was skipped,
\* and the task after it was executed.
C36_Witness ==
    /\ pc = "done" /\ Len(trace) = 2
    /\ trace[1].phase = "skipped"
    /\ trace[1].task.when.definition =
          List(<<Bare(Lit(Bool(FALSE))), Bare(BadExpr)>>)
    /\ outcome.st = "returned"

(***************************************************************************)
(* C37.  A block that has ignore_errors and a child that raises: the       *)
(* exception leaves Block.execute, so that the children after it are not   *)
(* called, and the except clause of the block's _execute_one returns a     *)
(* failed Result, which Task.__call__ registers; the contexts are as the   *)
(* children left them and the script goes on with the task after the       *)
(* block.  A child that fails and has ignore_errors itself returns, and    *)
(* the block calls its next child.                                         *)
(***************************************************************************)
\* The children of the b-th task of the script, a block.
C37_Children(b) == tasks[b].params.m.tasks.items

\* The i-th event is of a child of a block of the script without a loop.
C37_OfChild(i) ==
    /\ Len(trace[i].path) = 2
    /\ tasks[trace[i].path[1]].kind = "block"
    /\ tasks[trace[i].path[1]].loop = None

C37_ChildRaised(i) ==
    \/ trace[i].phase \in {"condition failed", "params failed"}
    \/ /\ trace[i].phase \in {"validate failed", "exc", "wrong result"}
       /\ ~trace[i].task.ignore_errors

C37_ChildIgnored(i) ==
    /\ trace[i].phase \in {"validate failed", "exc", "wrong result"}
    /\ trace[i].task.ignore_errors

\* The event after that of a child that raised in a block with
\* ignore_errors is of the task after the block; without one, the script
\* has returned None.
C37_Stops ==
    \A i \in DOMAIN trace :
       LET b == trace[i].path[1]
       IN  /\ C37_OfChild(i) /\ C37_ChildRaised(i) /\ tasks[b].ignore_errors
           /\ i < Len(trace) \/ pc = "done"
           => IF i < Len(trace) THEN trace[i + 1].path = <<b + 1>>
              ELSE b = Len(tasks) /\ outcome = [st |-> "returned", v |-> None]

\* The event after that of a child with ignore_errors that failed is of
\* the next child.
C37_GoesOn ==
    \A i \in DOMAIN trace :
       LET b == trace[i].path[1]
       IN  /\ C37_OfChild(i) /\ C37_ChildIgnored(i)
           /\ trace[i].task.loop = None
           /\ trace[i].path[2] < Len(C37_Children(b))
           /\ i < Len(trace) \/ pc = "done"
           => /\ i < Len(trace)
              /\ trace[i + 1].path = <<b, trace[i].path[2] + 1>>

C37_Step ==
    /\ pc = "run" /\ IsErr(exc) /\ Top.f = "block" =>
          stack' = Pop(stack) /\ exc' = exc /\ ctxs' = ctxs /\ trace' = trace
    /\ pc = "run" /\ IsErr(exc) /\ Top.f = "call" /\ Top.task.ignore_errors =>
          /\ Top.task.kind = "block"
          /\ Collects /\ ctxs' = ctxs /\ trace' = trace
          /\ NewResult.d.failed = Bool(TRUE)
          /\ NewResult.d.failure.k = "msg"
    /\ C37_Stops' /\ C37_GoesOn'

C37_ShieldingBlock == [][C37_Step]_vars

\* The block of `vars: {x: 1}`, `fail: boom` and `vars: {y: 2}` with
\* ignore_errors and register: r, followed by a task that reads r and by
\* `return: "{{ x }}"`: y was not set, r is a failed Result, 1 is returned.
C37_Witness ==
    /\ pc = "done" /\ Len(trace) = 5
    /\ trace[1].path = <<1>> /\ trace[1].task.ignore_errors
    /\ trace[3].path = <<1, 2>> /\ trace[3].phase = "exc"
    /\ ~trace[3].task.ignore_errors
    /\ trace[4].path = <<2>> /\ trace[5].path = <<3>>
    /\ "x" \in DOMAIN ctxs[1] /\ ctxs[1].x = Num(1)
    /\ "y" \notin DOMAIN ctxs[1] /\ "r" \in DOMAIN ctxs[1]
    /\ ctxs[1].r.k = "result" /\ ctxs[1].r.d.failed = Bool(TRUE)
    /\ outcome = [st |-> "returned", v |-> Num(1)]

(***************************************************************************)
(* C38.  Termination.  Script.__call__, Block.execute and Task.__call__    *)
(* are for loops over lists that do not change, run by one thread that     *)
(* takes its next step whenever it has one: every execution that has       *)
(* started ends, with a value that execute returns or with the             *)
(* ExecutionFailed it raises.  On the way _execute_one is called at most   *)
(* once for a task and an item: two calls for the same task and the same   *)
(* or an earlier item belong to two executions of the list that holds the  *)
(* task, that is, an enclosing block was executed again between them.      *)
(***************************************************************************)
\* The steps of Script.__call__, Block.execute and Task.__call__ around the
\* calls of _execute_one
Control ==
    \/ ScriptNext \/ ScriptEnd \/ BlockNext \/ BlockEnd
    \/ TaskReturn \/ BlockRaise \/ TaskExcept \/ ScriptExcept

\* The executions that are checked for termination: of the scripts of
\* Scenarios and of every script of one task of FirstTasks, with its loops
\* and blocks.
FairSources == Scenarios \cup {List(<<first>>) : first \in FirstTasks}
FairInit == source \in FairSources /\ Init

\* The thread that executes the script takes its next step: weak fairness
\* of Control and of ExecuteOne.  ExecuteOne is enabled exactly in the
\* states of AtItem (the evaluator always returns), and its fairness is
\* written with AtItem for ENABLED <<ExecuteOne>>_vars.
FairSpec ==
    /\ FairInit /\ [][Next]_vars
    /\ WF_vars(Control)
    /\ []<>(~AtItem) \/ []<><<ExecuteOne>>_vars

C38_Ended ==
    /\ pc = "done"
    /\ \/ outcome.st = "returned"
       \/ outcome.st = "raised" /\ outcome.e.cls = "ExecutionFailed"

C38_Prefix(p, q) == Len(p) < Len(q) /\ SubSeq(q, 1, Len(p)) = p

C38_Once ==
    \A i, j \in DOMAIN trace :
       /\ i < j /\ trace[i].path = trace[j].path
       /\ trace[j].n <= trace[i].n
       => \E m \in (i + 1)..(j - 1) : C38_Prefix(trace[m].path, trace[i].path)

C38_Terminates == []C38_Once /\ (pc = "run" ~> C38_Ended)

\* An execution of a block with a loop, which executed its first child
\* twice, has ended.
C38_Witness ==
    /\ C38_Ended
    /\ \E i, j \in DOMAIN trace :
          /\ i < j /\ trace[i].path = <<1, 1>> /\ trace[j].path = <<1, 1>>
          /\ trace[i].n = trace[j].n

(***************************************************************************)
(* C39.  The earlier implementations: Task.__call__ of miniscript/_tasks.py *)
(* and Action.__call__ of minidpl.  Both evaluate `when`, log that the     *)
(* task is skipped when it is falsy, and go on: there is no return after   *)
(* the log call.  One call of a task is modelled, in two steps, against    *)
(* the variables of the caller (ctxs[1]): the guard, and the rest of       *)
(* __call__.  The trace gets the log message and the call of execute.      *)
(***************************************************************************)
\* The tasks that are called: the kinds of miniscript/_tasks.py, and an
\* action of the caller of minidpl, whose execute returns None.
EarlierTasks ==
    {[impl |-> b[1], kind |-> b[2], params |-> b[3], when |-> w,
      ignore_errors |-> ie, register |-> rg] :
        b \in { <<"_tasks", "vars", DictOf(<< <<"x", Num(1)>> >>)>>,
                <<"_tasks", "fail", DictOf(<< <<"msg", Text("boom")>> >>)>>,
                <<"_tasks", "return", DictOf(<< <<"result", Tmpl(Var("item"))>> >>)>>,
                <<"_tasks", "log", DictOf(<< <<"info", Tmpl(BadExpr)>> >>)>>,
                <<"minidpl", "action", EmptyDict>> },
        w \in { None, Tmpl(Lit(Bool(TRUE))), Tmpl(Lit(Bool(FALSE))),
                Tmpl(NotNone("item")), Tmpl(BadExpr),
                List(<<Tmpl(Lit(Bool(TRUE))), Tmpl(Lit(Bool(FALSE)))>>) },
        ie \in BOOLEAN, rg \in {None, Name("r")}}

\* When.__call__ of both: all() over engine._evaluate of the conditions
EarlierWhen(definition, cs) ==
    LET d == When(definition).definition.items
        r == [i \in DOMAIN d |-> Evaluate(d[i], cs, 1)]
        stop == {i \in DOMAIN d : IsErr(r[i]) \/ ~Truthy(r[i])}
        first == CHOOSE i \in stop : \A j \in stop : i <= j
    IN  IF stop = {} THEN Bool(TRUE)
        ELSE IF IsErr(r[first]) THEN r[first]
        ELSE Bool(FALSE)

\* __call__ after the guard: the parameters are evaluated (_tasks.py), the
\* body is executed, its Result is registered.  The outcome is "returned"
\* (of __call__, with None), "finished" (FinishScript) or "raised".
EarlierCall(task, cs) ==
    LET vals == [n \in DOMAIN task.params.m |-> EvalRec(task.params.m[n], cs, 1)]
        bad == {n \in DOMAIN vals : IsErr(vals[n])}
        body == CASE task.kind = "fail" ->
                       [st |-> "exc",
                        e |-> ExecutionFailed(<<"fail", " aborted: ",
                                                TextOf(vals["msg"])>>)]
                  [] task.kind = "return" -> [st |-> "finish", v |-> vals["result"]]
                  [] OTHER -> [st |-> "ok"]
        set == IF task.kind = "vars" THEN [cs EXCEPT ![1] = vals @@ @] ELSE cs
        result(failure) ==
            [k |-> "result",
             d |-> [succeeded |-> Bool(failure = None),
                    failed |-> Bool(failure # None),
                    failure |-> failure, result |-> None]]
        register(csx, res) ==
            IF task.register = None THEN csx
            ELSE [csx EXCEPT ![1] = (TextOf(task.register) :> res) @@ @]
    IN  IF bad # {}
        THEN [ctxs |-> cs, executed |-> FALSE,
              outcome |-> [st |-> "raised",
                           e |-> ExecutionFailed(<<"Failed to evaluate parameters">>)]]
        ELSE IF body.st = "finish"
        THEN [ctxs |-> cs, executed |-> TRUE,
              outcome |-> [st |-> "finished", v |-> body.v]]
        ELSE IF body.st = "exc" /\ ~task.ignore_errors
        THEN [ctxs |-> cs, executed |-> TRUE,
              outcome |-> [st |-> "raised", e |-> body.e]]
        ELSE [ctxs |-> register(set, result(IF body.st = "exc"
                                            THEN Failure(body.e) ELSE None)),
              executed |-> TRUE,
              outcome |-> [st |-> "returned", v |-> None]]

EarlierInit ==
    /\ pc = "call"
    /\ source \in EarlierTasks
    /\ tasks = <<>> /\ stack = <<>>
    /\ ctxs \in {<<cx>> : cx \in Contexts}
    /\ exc = NoExc
    /\ outcome = [st |-> "none"]
    /\ trace = <<>>
    /\ calls = [context |-> ctxs[1], past |-> <<>>]
    /\ engine = [builtins |-> _BUILTINS, tasks |-> _BUILTINS, others |-> <<>>,
                 given |-> [n \in {} |-> "Task"], error |-> NoErr, made |-> 1]

\* if self.when is not None and not self.when(context): logger.debug(...)
EarlierGuard ==
    /\ pc = "call"
    /\ LET g == IF source.when = None THEN Bool(TRUE)
                ELSE EarlierWhen(source.when, ctxs)
       IN  IF IsErr(g)
           THEN /\ pc' = "done" /\ outcome' = [st |-> "raised", e |-> g]
                /\ UNCHANGED trace
           ELSE /\ pc' = "body" /\ UNCHANGED outcome
                /\ trace' = IF g.b THEN trace ELSE Append(trace, "is skipped")
    /\ UNCHANGED <<source, tasks, stack, ctxs, exc, calls, engine>>

\* the rest of __call__
EarlierBody ==
    /\ pc = "body"
    /\ LET r == EarlierCall(source, ctxs)
       IN  /\ ctxs' = r.ctxs /\ outcome' = r.outcome
           /\ trace' = IF r.executed THEN Append(trace, "execute") ELSE trace
    /\ pc' = "done"
    /\ UNCHANGED <<source, tasks, stack, exc, calls, engine>>

EarlierSpec == EarlierInit /\ [][EarlierGuard \/ EarlierBody]_vars

\* C39 (as the claim states it): the task that was logged as skipped stays
\* without a call of execute, and the variables are as the caller had them.
C39_Skipped ==
    (pc = "done" /\ trace # <<>> /\ trace[1] = "is skipped") =>
       /\ trace = <<"is skipped">>
       /\ ctxs[1] = calls.context
       /\ outcome = [st |-> "returned", v |-> None]

(***************************************************************************)
(* The combine filter (filters.py, _utils.py).  The call is kept in        *)
(* source: value, other (the further positional arguments), recursive and  *)
(* list_merge; ctxs holds the objects the caller passed, as the call       *)
(* leaves them.  The mappings of the pool have ints, None, lists of ints   *)
(* and mappings as values, and no str.                                     *)
(***************************************************************************)
combine_lists(first, second, list_merge) ==
    CASE list_merge = "replace" -> second
      [] list_merge = "keep" -> first
      [] list_merge = "append" -> List(first.items \o second.items)
      [] list_merge = "prepend" -> List(second.items \o first.items)
      [] OTHER ->
           LET rest == SelectSeq(first.items,
                           LAMBDA item : \A j \in DOMAIN second.items :
                                             second.items[j] # item)
           IN  IF list_merge = "append_rp"
               THEN List(rest \o second.items)
               ELSE List(second.items \o rest)

\* result = dict(first), then result[key] = value for every item of second;
\* the nested call is combine_dicts(existing, value), with the defaults
\* recursive=False and list_merge='replace'.
RECURSIVE combine_dicts(_, _, _, _)
combine_dicts(first, second, recursive, list_merge) ==
    LET result[i \in 0..Len(second.o)] ==
            IF i = 0 THEN Dict(first.o, first.m)
            ELSE LET key == second.o[i]
                     value == second.m[key]
                     existing == result[i - 1].m[key]
                 IN  DictPut(result[i - 1], key,
                         IF key \notin DOMAIN result[i - 1].m THEN value
                         ELSE IF /\ recursive
                                 /\ existing.k = "map" /\ value.k = "map"
                              THEN combine_dicts(existing, value,
                                                 FALSE, "replace")
                         ELSE IF existing.k = "list" /\ value.k = "list"
                              THEN combine_lists(existing, value, list_merge)
                         ELSE value)
    IN  result[Len(second.o)]

combine(value, other, recursive, list_merge) ==
    LET VALID_LIST_MERGE == {"replace", "keep", "append", "prepend",
                             "append_rp", "prepend_rp"}
        chain == (IF value.k = "list" THEN value.items ELSE <<value>>)
                 \o other
        result[i \in 1..Len(chain)] ==
            IF i = 1 THEN Dict(chain[1].o, chain[1].m)
            ELSE combine_dicts(result[i - 1], chain[i],
                               recursive, list_merge)
    IN  IF list_merge \notin VALID_LIST_MERGE
        THEN Err("TypeError",
                 <<list_merge, " is not a valid list_merge value">>)
        ELSE IF chain = <<>> THEN EmptyDict
        ELSE result[Len(chain)]

CombineInit ==
    LET ints == List(<<Num(1), Num(2)>>)
        more == List(<<Num(2), Num(3)>>)
        Left ==
          { DictOf(<<<<"milk", Num(1)>>, <<"eggs", ints>>>>),
            DictOf(<<<<"nested", DictOf(<<<<"key", Num(1)>>,
                                          <<"key2", ints>>>>)>>>>),
            DictOf(<<<<"nested",
                      DictOf(<<<<"deep", DictOf(<<<<"key", Num(1)>>,
                                                  <<"key2", ints>>>>)>>,
                               <<"answer", Num(42)>>>>)>>>>) }
        Right ==
          { DictOf(<<<<"milk", Num(2)>>, <<"eggs", more>>,
                     <<"bread", None>>>>),
            DictOf(<<<<"nested", DictOf(<<<<"key", Num(2)>>,
                                          <<"key2", more>>>>)>>>>),
            DictOf(<<<<"nested",
                      DictOf(<<<<"deep", DictOf(<<<<"key", Num(2)>>>>)>>>>)>>,
                     <<"added", EmptyDict>>>>),
            DictOf(<<<<"nested",
                      DictOf(<<<<"deep",
                                 DictOf(<<<<"key2", more>>>>)>>>>)>>>>),
            DictOf(<<<<"nested", Num(0)>>>>) }
    IN  /\ pc = "call"
        /\ source \in
             [value : Left \cup {List(<<>>)}
                        \cup {List(<<l, r>>) : l \in Left, r \in Right},
              other : {<<>>} \cup {<<r>> : r \in Right},
              recursive : BOOLEAN,
              list_merge : {"replace", "keep", "append", "prepend",
                            "append_rp", "prepend_rp", "foo"}]
        /\ tasks = <<>> /\ stack = <<>>
        /\ ctxs = <<source.value>> \o source.other
        /\ exc = NoExc
        /\ outcome = [st |-> "none"]
        /\ trace = <<>>
        /\ calls = [context |-> ctxs[1], past |-> <<>>]
        /\ engine = [builtins |-> _BUILTINS, tasks |-> _BUILTINS,
                     others |-> <<>>, given |-> [n \in {} |-> "Task"],
                     error |-> NoErr, made |-> 1]

\* value | combine(*other, recursive=..., list_merge=...): no statement of
\* the three functions writes into an argument.
CombineCall ==
    /\ pc = "call"
    /\ LET r == combine(source.value, source.other,
                        source.recursive, source.list_merge)
       IN  outcome' = IF IsErr(r) THEN [st |-> "raised", e |-> r]
                      ELSE [st |-> "returned", v |-> r]
    /\ pc' = "done"
    /\ UNCHANGED <<source, tasks, stack, ctxs, exc, trace, calls, engine>>

CombineSpec == CombineInit /\ [][CombineCall]_vars

\* The two mappings of a call that combines exactly two.
C40_Pair == IF source.value.k = "list" THEN source.value.items
            ELSE <<source.value>> \o source.other

\* A key of the left mapping is in the result, also below the keys whose
\* values are mappings on both sides.
RECURSIVE C40_Survives(_, _, _)
C40_Survives(left, right, res) ==
    \A key \in DOMAIN left.m :
       /\ key \in DOMAIN res.m
       /\ (/\ left.m[key].k = "map"
           /\ key \in DOMAIN right.m /\ right.m[key].k = "map")
            => /\ res.m[key].k = "map"
               /\ C40_Survives(left.m[key], right.m[key], res.m[key])

\* The lists that meet under one key are merged as list_merge says, at
\* every depth.
RECURSIVE C40_ListsMerged(_, _, _)
C40_ListsMerged(left, right, res) ==
    \A key \in DOMAIN left.m \cap DOMAIN right.m :
       /\ (left.m[key].k = "list" /\ right.m[key].k = "list")
            => res.m[key] = combine_lists(left.m[key], right.m[key],
                                          source.list_merge)
       /\ (left.m[key].k = "map" /\ right.m[key].k = "map")
            => /\ res.m[key].k = "map"
               /\ C40_ListsMerged(left.m[key], right.m[key], res.m[key])

\* What holds of every call: the arguments are as they were, and exactly
\* an unknown list_merge raises, a TypeError.
C40_ArgumentsKept ==
    pc = "done" =>
       /\ ctxs = <<source.value>> \o source.other
       /\ (outcome.st = "raised") = (source.list_merge = "foo")
       /\ outcome.st = "raised" => outcome.e.cls = "TypeError"

\* C40 (as the claim states it): with recursive=True the mappings are merged
\* at every depth, a key of the left mapping alone surviving at depth 2 and
\* deeper, and the lists at every depth are merged as list_merge says; the
\* arguments stay as they were, and an unknown list_merge raises TypeError.
C40_Recursive ==
    /\ C40_ArgumentsKept
    /\ (/\ pc = "done" /\ outcome.st = "returned"
        /\ source.recursive /\ Len(C40_Pair) = 2)
         => /\ C40_Survives(C40_Pair[1], C40_Pair[2], outcome.v)
            /\ C40_ListsMerged(C40_Pair[1], C40_Pair[2], outcome.v)

====
